---------------------------- MODULE Spec2Model ----------------------------
(***************************************************************************)
(* A model of the segmentation core of the OCR backend and of the routes    *)
(* around it:                                                              *)
(*   backend/services/line_segmentation.py   (LineSegmenter)               *)
(*   backend/services/character_grouping.py  (CharacterSegmenter)          *)
(*   backend/routes/training.py, labeling.py, segmentation.py              *)
(*   backend/inference_app.py                                              *)
(* Images are grids of 8-bit intensities: a sequence of rows, each row a   *)
(* sequence of pixels.  Python's 0-based coordinates are kept in every     *)
(* result (y_start, y_end, bbox), TLA+ sequences are 1-based, so pixel     *)
(* (y, x) of the code is img[y + 1][x + 1] here.                           *)
(***************************************************************************)
EXTENDS Integers, Sequences, FiniteSets, TLC

VARIABLES
    pc,               \* which call has been made so far
    img,              \* the image handed to the segmenter
    min_line_height,  \* segment_lines parameter
    max_gap,          \* segment_lines / _merge_close_lines parameter
    lines,            \* the candidate bands kept by the row scan (before merging)
    result,           \* the list returned by segment_lines / _merge_close_lines
    first,            \* the bands of the previous segment_lines call
    union_img,        \* img with every row outside the bands of "first" blanked
    min_area,         \* segment_characters parameter
    max_area,         \* segment_characters parameter
    characters,       \* the glyph list: segment_characters' result, the grouper's input
    method,           \* group_characters_by_similarity parameter
    n_clusters,       \* kmeans keyword: <<>> is None, <<k>> is the integer k
    max_clusters,     \* kmeans keyword
    labels,           \* what fit_predict returned, <<>> before any clustering
    groups,           \* the mapping returned by group_characters_by_similarity
    input_chars,      \* the glyph list as it was before the grouping call
    hog_calls,        \* number of extract_hog_features calls made so far
    fit_calls,        \* number of fit_predict calls made so far
    kmeans_k,         \* <<k>>: the n_clusters handed to KMeans, <<>> if none was
    group_id1,        \* merge_character_groups arguments, <<>> before a merge
    group_id2,
    groups_before,    \* the mapping as it was before the merge call
    chars_before,     \* the glyph list as it was before the merge call
    rtl,              \* sort_characters_reading_order parameter
    sorted_chars,     \* the list returned by sort_characters_reading_order
    training_status,  \* routes/training.py: the global status dict
    progress_queue,   \* routes/training.py: the global queue.Queue, head first
    req,              \* per POST /api/train request: handler position and arguments
    resp,             \* per POST /api/train request: the response, "" before it
    thr,              \* per request: the training thread it started
    cli,              \* per /api/train/progress client: its stream
    db,               \* the committed database: characters and documents
    session,          \* db.session: the database as the request's transaction sees it
    db_before,        \* the committed database when the request arrived
    label_data,       \* POST /api/label/characters: request.get_json(), <<>> is None
    label_pos,        \* POST /api/label/characters: entries of "labels" handled so far
    label_resp,       \* POST /api/label/characters: the status answered, 0 before
    line_table,       \* the committed rows of the Line table, in insertion order
    store_calls,      \* successful POST /api/segment/lines calls so far
    ocr_pos,          \* /api/ocr/lines: bands handled so far
    ocr_chars,        \* /api/ocr/lines: per handled band, its glyphs as they were read
    result_lines,     \* /api/ocr/lines: the "lines" of the response
    full_text,        \* /api/ocr/lines: the "text" of the response
    runs              \* per pipeline run: its document and its local values

lineVars == <<min_line_height, max_gap, lines, result, first, union_img>>
charVars == <<min_area, max_area>>
clusterVars == <<input_chars, hog_calls, fit_calls, kmeans_k>>
mergeVars == <<group_id1, group_id2, groups_before, chars_before>>
sortVars == <<rtl, sorted_chars>>
groupVars == <<method, n_clusters, max_clusters, labels, groups, clusterVars,
               mergeVars, sortVars>>

trainVars == <<training_status, progress_queue, req, resp, thr, cli>>
labelVars == <<db, session, db_before, label_data, label_pos, label_resp>>
storeVars == <<line_table, store_calls>>
ocrVars == <<ocr_pos, ocr_chars, result_lines, full_text>>
runVars == <<runs>>
routeVars == <<trainVars, labelVars, storeVars, ocrVars, runVars>>
serviceVars == <<img, lineVars, charVars, characters, groupVars>>

vars == <<pc, img, lineVars, charVars, characters, groupVars, routeVars>>

-----------------------------------------------------------------------------
(* Bounds of the model *)

MaxPageHeight == 10
MaxMinLineHeight == 3
MaxMaxGap == 2
MaxImgHeight == 2
MaxImgWidth == 3
MaxAreaParam == 3
MaxGlyphs == 4
MaxClusters == 3
MaxSameGlyphs == 6
MaxSortGlyphs == 3
MaxRequests == 2
MaxClients == 2
MaxEpochs == 2
MaxStoredChars == 2
MaxLabels == 2
MaxWideHeight == 3
MaxStoreCalls == 2
MaxOcrLines == 2
MaxRuns == 2

-----------------------------------------------------------------------------
(* The state of the routes while a specification of the services runs *)

Requests == 1..MaxRequests
Clients == 1..MaxClients

\* training_status as the module sets it on import.
InitialStatus ==
    [is_training |-> FALSE, current_epoch |-> 0, total_epochs |-> 0, progress |-> 0]

\* No request, no thread, no client, an empty queue.
IdleTraining ==
    /\ training_status = InitialStatus
    /\ progress_queue = <<>>
    /\ req = [r \in Requests |-> [pc |-> "new", epochs |-> 0]]
    /\ resp = [r \in Requests |-> ""]
    /\ thr = [r \in Requests |-> [pc |-> "none", epoch |-> 0, terminals |-> 0]]
    /\ cli = [c \in Clients |-> [pc |-> "closed", during |-> FALSE, last |-> ""]]

\* No labeling request, an empty database.
IdleLabeling ==
    /\ db = <<>> /\ session = <<>> /\ db_before = <<>>
    /\ label_data = <<>> /\ label_pos = 0 /\ label_resp = 0

\* No stored line.
IdleStore == line_table = <<>> /\ store_calls = 0

\* No OCR request.
IdleOcr == ocr_pos = 0 /\ ocr_chars = <<>> /\ result_lines = <<>> /\ full_text = <<>>

\* No pipeline run.
IdleRuns == runs = <<>>

IdleRoutes == IdleTraining /\ IdleLabeling /\ IdleStore /\ IdleOcr /\ IdleRuns

\* No call of a service has been made and none is prepared.
IdleServices ==
    /\ img = <<>> /\ min_area = 0 /\ max_area = 0
    /\ min_line_height = 0 /\ max_gap = 0 /\ lines = <<>>
    /\ result = <<>> /\ first = <<>> /\ union_img = <<>>
    /\ characters = <<>>
    /\ method = "" /\ n_clusters = <<>> /\ max_clusters = 0
    /\ labels = <<>> /\ groups = <<>>
    /\ input_chars = <<>> /\ hog_calls = 0 /\ fit_calls = 0 /\ kmeans_k = <<>>
    /\ group_id1 = <<>> /\ group_id2 = <<>>
    /\ groups_before = <<>> /\ chars_before = <<>>
    /\ rtl = TRUE /\ sorted_chars = <<>>

-----------------------------------------------------------------------------
(* cv2.threshold(img, 127, 255, cv2.THRESH_BINARY_INV) and np.sum(axis=1) *)

Thresh == 127
MaxVal == 255

\* The two intensities on either side of the threshold.
PixelLevels == {Thresh, Thresh + 1}

\* THRESH_BINARY_INV: a pixel above the threshold becomes 0, any other maxval.
\* Variant: intensity 127 itself counted as background.
ThresholdInvStrict(p) == IF p >= Thresh THEN 0 ELSE MaxVal
ThresholdInv(p) == IF p > Thresh THEN 0 ELSE MaxVal

Binarize(image) ==
    [r \in 1..Len(image) |-> [c \in 1..Len(image[r]) |-> ThresholdInv(image[r][c])]]

RECURSIVE SumSeq(_)
SumSeq(s) == IF s = <<>> THEN 0 ELSE s[1] + SumSeq(Tail(s))

\* h_projection = np.sum(binary, axis=1): one sum per row.
HProjection(binary) == [r \in 1..Len(binary) |-> SumSeq(binary[r])]

-----------------------------------------------------------------------------
(* LineSegmenter.segment_lines: the row scan *)

\* if line_height >= min_line_height
\* Variant: a run of exactly min_line_height rows is dropped.
KeepLineStrict(line_height, mlh) == line_height > mlh
KeepLine(line_height, mlh) == line_height >= mlh

\* The scan state before the first row.
ScanInit == [lines |-> <<>>, in_line |-> FALSE, line_start |-> 0]

\* One iteration of "for i, value in enumerate(h_projection)".
ScanStep(st, i, value, mlh) ==
    IF value > 0 /\ ~st.in_line
    THEN [st EXCEPT !.line_start = i, !.in_line = TRUE]
    ELSE IF value = 0 /\ st.in_line
    THEN [st EXCEPT
            !.lines = IF KeepLine(i - st.line_start, mlh)
                      THEN Append(st.lines, <<st.line_start, i>>)
                      ELSE st.lines,
            !.in_line = FALSE]
    ELSE st

\* The iterations i .. n-1 of the loop from the scan state st (row i of the
\* code is h_projection[i + 1]); the state of an iteration is evaluated before
\* the next iteration starts.
RECURSIVE ScanFrom(_, _, _, _, _)
ScanFrom(st, h_projection, i, n, mlh) ==
    IF i >= n THEN st
    ELSE LET next == ScanStep(st, i, h_projection[i + 1], mlh)
         IN  IF next.in_line \in BOOLEAN
             THEN ScanFrom(next, h_projection, i + 1, n, mlh)
             ELSE next

\* The whole loop over rows 0 .. n-1.
ScanRows(h_projection, n, mlh) == ScanFrom(ScanInit, h_projection, 0, n, mlh)

\* "Handle last line if image ends with text"
\* Variant: the open band is closed at the index of the last row.
CloseOpenLineBeforeLast(st, n) ==
    IF st.in_line THEN Append(st.lines, <<st.line_start, n - 1>>) ELSE st.lines
CloseOpenLine(st, n) ==
    IF st.in_line THEN Append(st.lines, <<st.line_start, n>>) ELSE st.lines

\* The list "lines" as it is handed to _merge_close_lines.
CandidateLines(image, mlh) ==
    LET h_projection == HProjection(Binarize(image))
    IN  CloseOpenLine(ScanRows(h_projection, Len(h_projection), mlh),
                      Len(h_projection))

-----------------------------------------------------------------------------
(* LineSegmenter._merge_close_lines *)

\* if gap <= max_gap
\* Variant: a gap of exactly max_gap is not merged.
ShouldMergeStrict(gap, mg) == gap < mg
ShouldMerge(gap, mg) == gap <= mg

\* One iteration of "for current_start, current_end in lines[1:]".
MergeStep(merged, current, mg) ==
    LET last == merged[Len(merged)]
        gap  == current[1] - last[2]
    IN  IF ShouldMerge(gap, mg)
        THEN [merged EXCEPT ![Len(merged)] = <<last[1], current[2]>>]
        ELSE Append(merged, current)

RECURSIVE MergeFrom(_, _, _, _)
MergeFrom(merged, ls, k, mg) ==
    IF k > Len(ls) THEN merged
    ELSE MergeFrom(MergeStep(merged, ls[k], mg), ls, k + 1, mg)

MergeCloseLines(ls, mg) ==
    IF ls = <<>> THEN <<>> ELSE MergeFrom(<<ls[1]>>, ls, 2, mg)

-----------------------------------------------------------------------------
(* LineSegmenter.segment_lines: the result list *)

\* img[y_start:y_end, :]
RowSlice(image, y_start, y_end) ==
    LET lo == IF y_start < 0 THEN 0 ELSE y_start
        hi == IF y_end > Len(image) THEN Len(image) ELSE y_end
    IN  SubSeq(image, lo + 1, hi)

\* Variant: line_order numbered from 1.
LineBandsFromOne(merged_lines, image) ==
    [idx \in 1..Len(merged_lines) |->
        [line_order |-> idx,
         y_start    |-> merged_lines[idx][1],
         y_end      |-> merged_lines[idx][2],
         image      |-> RowSlice(image, merged_lines[idx][1], merged_lines[idx][2])]]
LineBands(merged_lines, image) ==
    [idx \in 1..Len(merged_lines) |->
        [line_order |-> idx - 1,
         y_start    |-> merged_lines[idx][1],
         y_end      |-> merged_lines[idx][2],
         image      |-> RowSlice(image, merged_lines[idx][1], merged_lines[idx][2])]]

SegmentLines(image, mlh, mg) ==
    LineBands(MergeCloseLines(CandidateLines(image, mlh), mg), image)

-----------------------------------------------------------------------------
(* Inputs of the line segmenter *)

\* Single-column pages: every row is one pixel, ink (127) or background (128).
SingleColumnRows == {<<p>> : p \in PixelLevels}

ColumnPages == UNION {[1..h -> SingleColumnRows] : h \in 1..MaxPageHeight}

\* The page of the projection-profile scenario: row r holds ScenarioInk[r] ink
\* pixels (intensity 0) followed by background (intensity 255).
ScenarioInk == <<0, 0, 5, 5, 5, 0, 0, 3, 3, 0, 0>>

ScenarioPage ==
    [r \in 1..Len(ScenarioInk) |->
        [c \in 1..5 |-> IF c <= ScenarioInk[r] THEN 0 ELSE MaxVal]]

LinePages == ColumnPages \cup {ScenarioPage}

\* Band lists in top-to-bottom order: start < end, end <= next start.
Bands == {b \in (0..MaxPageHeight) \X (0..MaxPageHeight) : b[1] < b[2]}

TopToBottom(ls) ==
    /\ \A k \in 1..Len(ls) : ls[k][1] < ls[k][2]
    /\ \A k \in 1..Len(ls) - 1 : ls[k][2] <= ls[k + 1][1]

BandLists == {ls \in UNION {[1..k -> Bands] : k \in 0..3} : TopToBottom(ls)}

\* The image whose rows outside every band are set to background.
UnionImage(image, bands) ==
    [r \in 1..Len(image) |->
        IF \E k \in 1..Len(bands) : bands[k].y_start <= r - 1 /\ r - 1 < bands[k].y_end
        THEN image[r]
        ELSE [c \in 1..Len(image[r]) |-> MaxVal]]

-----------------------------------------------------------------------------
(* The line segmenter as a state machine: one action per call *)

InitLines ==
    /\ min_line_height \in 1..MaxMinLineHeight
    /\ max_gap \in 0..MaxMaxGap
    /\ result = <<>>
    /\ first = <<>>
    /\ union_img = <<>>
    /\ min_area = 0 /\ max_area = 0 /\ characters = <<>>
    /\ method = "" /\ n_clusters = <<>> /\ max_clusters = 0
    /\ labels = <<>> /\ groups = <<>>
    /\ input_chars = <<>> /\ hog_calls = 0 /\ fit_calls = 0 /\ kmeans_k = <<>>
    /\ group_id1 = <<>> /\ group_id2 = <<>>
    /\ groups_before = <<>> /\ chars_before = <<>>
    /\ rtl = TRUE /\ sorted_chars = <<>>
    /\ IdleRoutes
    /\ \/ pc = "start" /\ img \in LinePages /\ lines = <<>>
       \/ pc = "merge_start" /\ img = <<>> /\ lines \in BandLists /\ min_line_height = 1

\* result = LineSegmenter.segment_lines(img, min_line_height, max_gap)
CallSegmentLines ==
    /\ pc = "start"
    /\ lines' = CandidateLines(img, min_line_height)
    /\ result' = SegmentLines(img, min_line_height, max_gap)
    /\ pc' = "segmented"
    /\ UNCHANGED <<img, min_line_height, max_gap, first, union_img, charVars, characters, groupVars, routeVars>>

\* A second segment_lines call, on the union image of the first call's bands.
CallSegmentLinesAgain ==
    /\ pc = "segmented"
    /\ first' = result
    /\ union_img' = UnionImage(img, result)
    /\ lines' = CandidateLines(union_img', min_line_height)
    /\ result' = SegmentLines(union_img', min_line_height, max_gap)
    /\ pc' = "resegmented"
    /\ UNCHANGED <<img, min_line_height, max_gap, charVars, characters, groupVars, routeVars>>

\* merged = LineSegmenter._merge_close_lines(lines, max_gap), called directly.
CallMergeCloseLines ==
    /\ pc = "merge_start"
    /\ result' = MergeCloseLines(lines, max_gap)
    /\ pc' = "merged"
    /\ UNCHANGED <<img, min_line_height, max_gap, lines, first, union_img, charVars, characters, groupVars, routeVars>>

NextLines == CallSegmentLines \/ CallSegmentLinesAgain \/ CallMergeCloseLines

SpecLines == InitLines /\ [][NextLines]_vars

-----------------------------------------------------------------------------
(* CharacterSegmenter.segment_characters *)

\* The foreground of the binary image: its non-zero pixels, as (y, x) pairs.
Foreground(binary) ==
    {p \in (0..Len(binary) - 1) \X (0..Len(binary[1]) - 1) :
        binary[p[1] + 1][p[2] + 1] # 0}

Abs(n) == IF n < 0 THEN -n ELSE n

\* connectivity=8: two distinct pixels touch by a side or by a corner.
\* Variant: connectivity 4, pixels touch by a side only.
Adjacent4(p, q) == Abs(p[1] - q[1]) + Abs(p[2] - q[2]) = 1
Adjacent8(p, q) == p # q /\ Abs(p[1] - q[1]) <= 1 /\ Abs(p[2] - q[2]) <= 1

\* The component reached from "frontier" through the pixels of "rest".
RECURSIVE Grow(_, _, _)
Grow(comp, frontier, rest) ==
    IF frontier = {} THEN comp
    ELSE LET new == {q \in rest : \E p \in frontier : Adjacent8(p, q)}
         IN  Grow(comp \cup new, new, rest \ new)

\* The first pixel of a set in raster order (top to bottom, left to right).
RasterFirst(S) ==
    CHOOSE p \in S : \A q \in S : p[1] < q[1] \/ (p[1] = q[1] /\ p[2] <= q[2])

\* cv2.connectedComponentsWithStats: the components of the foreground, label
\* k + 1 being the k-th component met in raster order (label 0 is the
\* background and is not in the list).
RECURSIVE LabelComponents(_)
LabelComponents(fg) ==
    IF fg = {} THEN <<>>
    ELSE LET seed == RasterFirst(fg)
             comp == Grow({seed}, {seed}, fg \ {seed})
         IN  <<comp>> \o LabelComponents(fg \ comp)

\* One row of "stats": CC_STAT_LEFT, _TOP, _WIDTH, _HEIGHT, _AREA.
Stats(comp) ==
    LET ys == {p[1] : p \in comp}
        xs == {p[2] : p \in comp}
        top    == CHOOSE y \in ys : \A z \in ys : y <= z
        bottom == CHOOSE y \in ys : \A z \in ys : y >= z
        left   == CHOOSE x \in xs : \A z \in xs : x <= z
        right  == CHOOSE x \in xs : \A z \in xs : x >= z
    IN  [left |-> left, top |-> top, width |-> right - left + 1,
         height |-> bottom - top + 1, area |-> Cardinality(comp)]

\* if min_area <= area <= max_area
\* Variant: the upper limit of the area filter is not applied.
AreaAtLeastMin(area, lo, hi) == lo <= area
AreaInRange(area, lo, hi) == lo <= area /\ area <= hi

\* img[y:y+h, x:x+w]
Crop(image, x, y, w, h) ==
    [r \in 1..h |-> [c \in 1..w |-> image[y + r][x + c]]]

\* The record appended for one accepted component.  The centroid (a pair of
\* floats) is not part of the model.
Character(image, st, char_id) ==
    [id    |-> char_id,
     bbox  |-> [x |-> st.left, y |-> st.top, w |-> st.width, h |-> st.height],
     image |-> Crop(image, st.left, st.top, st.width, st.height),
     area  |-> st.area]

\* "for i in range(1, num_labels)": chars is the list built so far.
RECURSIVE CollectCharacters(_, _, _, _, _, _)
CollectCharacters(image, comps, i, chars, lo, hi) ==
    IF i > Len(comps) THEN chars
    ELSE LET st == Stats(comps[i])
         IN  IF AreaInRange(st.area, lo, hi)
             THEN CollectCharacters(image, comps, i + 1,
                                    Append(chars, Character(image, st, Len(chars))),
                                    lo, hi)
             ELSE CollectCharacters(image, comps, i + 1, chars, lo, hi)

SegmentCharacters(image, lo, hi) ==
    CollectCharacters(image, LabelComponents(Foreground(Binarize(image))),
                      1, <<>>, lo, hi)

-----------------------------------------------------------------------------
(* Inputs of the character segmenter *)

Grids == UNION {[1..h -> [1..w -> PixelLevels]] :
                    <<h, w>> \in (1..MaxImgHeight) \X (1..MaxImgWidth)}

\* Two filled 10x10 squares whose top row is row 5, the second 20 columns to
\* the right of the first (columns 2..11 and 22..31), on a 18x34 background.
SquaresImage ==
    [r \in 1..18 |-> [c \in 1..34 |->
        IF r - 1 \in 5..14 /\ (c - 1 \in 2..11 \/ c - 1 \in 22..31)
        THEN 0 ELSE MaxVal]]

-----------------------------------------------------------------------------
(* The character segmenter as a state machine *)

InitChars ==
    /\ pc = "start"
    /\ \/ /\ img \in Grids
          /\ min_area \in 1..MaxAreaParam
          /\ max_area \in 1..MaxAreaParam
       \/ img = SquaresImage /\ min_area = 50 /\ max_area = 200
    /\ characters = <<>>
    /\ min_line_height = 0 /\ max_gap = 0 /\ lines = <<>>
    /\ result = <<>> /\ first = <<>> /\ union_img = <<>>
    /\ method = "" /\ n_clusters = <<>> /\ max_clusters = 0
    /\ labels = <<>> /\ groups = <<>>
    /\ input_chars = <<>> /\ hog_calls = 0 /\ fit_calls = 0 /\ kmeans_k = <<>>
    /\ group_id1 = <<>> /\ group_id2 = <<>>
    /\ groups_before = <<>> /\ chars_before = <<>>
    /\ rtl = TRUE /\ sorted_chars = <<>>
    /\ IdleRoutes

\* characters = CharacterSegmenter.segment_characters(img, min_area, max_area)
CallSegmentCharacters ==
    /\ pc = "start"
    /\ characters' = SegmentCharacters(img, min_area, max_area)
    /\ pc' = "characters"
    /\ UNCHANGED <<img, min_area, max_area, lineVars, groupVars, routeVars>>

NextChars == CallSegmentCharacters

SpecChars == InitChars /\ [][NextChars]_vars

-----------------------------------------------------------------------------
(* CharacterSegmenter.cluster_characters_kmeans / cluster_characters_dbscan *)

NoneValue == <<>>

\* max_clusters=50 in the signature of cluster_characters_kmeans
DefaultMaxClusters == 50

Min2(a, b) == IF a < b THEN a ELSE b
Max2(a, b) == IF a > b THEN a ELSE b

\* The n_clusters handed to KMeans: auto-detected when None, clamped to the
\* number of characters.
\* Variant: the count is not clamped to the number of characters.
EffectiveClustersUnclamped(n, nc, maxc) ==
    IF nc = NoneValue THEN Max2(Min2(n \div 3, maxc), 1) ELSE nc[1]
EffectiveClusters(n, nc, maxc) ==
    LET k == IF nc = NoneValue THEN Max2(Min2(n \div 3, maxc), 1) ELSE nc[1]
    IN  IF n < k THEN n ELSE k

\* The feature vectors of a glyph list.  A glyph's image is named by a number:
\* equal numbers are identical bitmaps, which extract_hog_features maps to
\* identical vectors.
Features(chars) == [i \in 1..Len(chars) |-> chars[i].image]

DistinctFeatures(features) == {features[i] : i \in 1..Len(features)}

\* A labelling gives samples with identical features the same label.
SameFeatureSameLabel(features, l) ==
    \A i, j \in 1..Len(features) : features[i] = features[j] => l[i] = l[j]

\* KMeans(n_clusters=k).fit_predict: one label in 0..k-1 per sample; the
\* vectors decide which.  With d <= k distinct vectors every distinct vector
\* becomes a centre of its own and k - d clusters stay empty ("Number of
\* distinct clusters found smaller than n_clusters"); with more, any number of
\* the k labels may be in use.
KMeansLabelings(features, k) ==
    LET d == Cardinality(DistinctFeatures(features))
    IN  {l \in [1..Len(features) -> 0..(k - 1)] :
            /\ SameFeatureSameLabel(features, l)
            /\ d <= k => Cardinality({l[i] : i \in 1..Len(features)}) = d}

\* DBSCAN.fit_predict: -1 for noise, clusters numbered 0, 1, ... without a
\* hole.
DBSCANLabelings(features) ==
    {l \in [1..Len(features) -> -1..(Len(features) - 1)] :
        /\ SameFeatureSameLabel(features, l)
        /\ \A i \in 1..Len(features) :
              \A c \in 0..(l[i] - 1) : \E j \in 1..Len(features) : l[j] = c}

\* "Assign group IDs": char['group_id'] = int(labels[i]) for every character.
\* Variant: the last character is left without a group id.
AssignGroupIdsButLast(chars, ls) ==
    [i \in 1..Len(chars) |->
        IF i < Len(chars) THEN [chars[i] EXCEPT !.group_id = <<ls[i]>>] ELSE chars[i]]
\* Variant: the group ids are numbered from one.
AssignGroupIdsFromOne(chars, ls) ==
    [i \in 1..Len(chars) |-> [chars[i] EXCEPT !.group_id = <<ls[i] + 1>>]]
\* Variant: the label is written to 'id' as well.
AssignGroupIdsAndIds(chars, ls) ==
    [i \in 1..Len(chars) |-> [chars[i] EXCEPT !.group_id = <<ls[i]>>, !.id = ls[i]]]
AssignGroupIds(chars, ls) ==
    [i \in 1..Len(chars) |-> [chars[i] EXCEPT !.group_id = <<ls[i]>>]]

-----------------------------------------------------------------------------
(* CharacterSegmenter.group_characters_by_similarity *)

\* A dict is a sequence of entries [key, chars] in insertion order.
HasKey(d, key) == \E j \in 1..Len(d) : d[j].key = key

\* One iteration of "for char in clustered": create the list when the group id
\* is new, then append the character.
\* Variant: the character that opens a new group is not appended.
AddToGroupsDropFirst(d, char) ==
    LET gid == char.group_id[1]
    IN  IF HasKey(d, gid)
        THEN [j \in 1..Len(d) |->
                IF d[j].key = gid THEN [d[j] EXCEPT !.chars = Append(@, char)] ELSE d[j]]
        ELSE Append(d, [key |-> gid, chars |-> <<>>])
AddToGroups(d, char) ==
    LET gid == char.group_id[1]
    IN  IF HasKey(d, gid)
        THEN [j \in 1..Len(d) |->
                IF d[j].key = gid THEN [d[j] EXCEPT !.chars = Append(@, char)] ELSE d[j]]
        ELSE Append(d, [key |-> gid, chars |-> <<char>>])

RECURSIVE GroupById(_, _)
GroupById(clustered, n) ==
    IF n = 0 THEN <<>> ELSE AddToGroups(GroupById(clustered, n - 1), clustered[n])

\* sorted(..., key=len of the list, reverse=True) is stable: an entry goes
\* before the first entry that is strictly smaller.
\* Variant: an entry goes before the first entry that is not larger.
InsertBySizeBeforeEqual(sorted, e) ==
    LET smaller == {j \in 1..Len(sorted) : Len(sorted[j].chars) <= Len(e.chars)}
        at == IF smaller = {} THEN Len(sorted) + 1
              ELSE CHOOSE j \in smaller : \A m \in smaller : j <= m
    IN  SubSeq(sorted, 1, at - 1) \o <<e>> \o SubSeq(sorted, at, Len(sorted))
InsertBySize(sorted, e) ==
    LET smaller == {j \in 1..Len(sorted) : Len(sorted[j].chars) < Len(e.chars)}
        at == IF smaller = {} THEN Len(sorted) + 1
              ELSE CHOOSE j \in smaller : \A m \in smaller : j <= m
    IN  SubSeq(sorted, 1, at - 1) \o <<e>> \o SubSeq(sorted, at, Len(sorted))

RECURSIVE SortBySize(_, _)
SortBySize(d, n) ==
    IF n = 0 THEN <<>> ELSE InsertBySize(SortBySize(d, n - 1), d[n])

\* The mapping returned for a clustered list.
SortedGroups(clustered) ==
    LET d == GroupById(clustered, Len(clustered)) IN SortBySize(d, Len(d))

-----------------------------------------------------------------------------
(* CharacterSegmenter.merge_character_groups *)

\* groups[key]
Lookup(d, key) == (CHOOSE e \in {d[j] : j \in 1..Len(d)} : e.key = key).chars

\* groups[group_id1].extend(groups[group_id2])
ExtendGroup(d, id1, id2) ==
    [j \in 1..Len(d) |->
        IF d[j].key = id1 THEN [d[j] EXCEPT !.chars = @ \o Lookup(d, id2)] ELSE d[j]]

\* del groups[group_id2]
DeleteGroup(d, id2) == SelectSeq(d, LAMBDA e : e.key # id2)

\* for char in groups[group_id1]: char['group_id'] = group_id1
RelabelGroup(d, id1) ==
    [j \in 1..Len(d) |->
        IF d[j].key = id1
        THEN [d[j] EXCEPT !.chars =
                [m \in 1..Len(@) |-> [@[m] EXCEPT !.group_id = <<id1>>]]]
        ELSE d[j]]

\* The glyph records are shared between the mapping and the glyph list: the
\* records relabelled through the mapping change in the list as well.
RelabelShared(chars, d, id1) ==
    [i \in 1..Len(chars) |->
        IF \E m \in 1..Len(Lookup(d, id1)) : Lookup(d, id1)[m].id = chars[i].id
        THEN [chars[i] EXCEPT !.group_id = <<id1>>]
        ELSE chars[i]]

-----------------------------------------------------------------------------
(* The grouper as a state machine *)

\* Glyphs as segment_characters numbers them: ids 0 .. n-1, no group_id yet.
Glyphs(images) ==
    [i \in 1..Len(images) |-> [id |-> i - 1, image |-> images[i], group_id |-> NoneValue]]

\* The image lists of n glyphs, images numbered in order of first appearance.
ImageLists(n) ==
    {s \in [1..n -> 0..(n - 1)] :
        \A i \in 1..n : \A v \in 0..(s[i] - 1) : \E j \in 1..(i - 1) : s[j] = v}

\* Up to MaxGlyphs glyphs with any images, or up to MaxSameGlyphs copies of one
\* glyph.
GlyphLists ==
    {Glyphs(s) : s \in UNION {ImageLists(n) : n \in 0..MaxGlyphs}}
        \cup {Glyphs([i \in 1..n |-> 0]) : n \in 1..MaxSameGlyphs}

\* Nine glyphs of three different shapes.
NineGlyphs == Glyphs(<<0, 0, 0, 1, 1, 1, 2, 2, 2>>)

Methods == {"kmeans", "dbscan", "hog"}

InitGroup ==
    /\ pc = "start"
    /\ method \in Methods
    /\ \/ /\ characters \in GlyphLists
          /\ \/ /\ method = "kmeans"
                /\ n_clusters \in {NoneValue} \cup {<<k>> : k \in -1..MaxClusters}
                /\ max_clusters \in (-1..MaxClusters) \cup {DefaultMaxClusters}
             \/ /\ method # "kmeans"     \* no kmeans keyword is passed
                /\ n_clusters = NoneValue
                /\ max_clusters = DefaultMaxClusters
       \/ /\ characters = NineGlyphs
          /\ method = "kmeans"
          /\ n_clusters = <<3>>
          /\ max_clusters = DefaultMaxClusters
    /\ input_chars = characters
    /\ labels = <<>>
    /\ groups = <<>>
    /\ hog_calls = 0 /\ fit_calls = 0 /\ kmeans_k = <<>>
    /\ group_id1 = <<>> /\ group_id2 = <<>>
    /\ groups_before = <<>> /\ chars_before = <<>>
    /\ rtl = TRUE /\ sorted_chars = <<>>
    /\ IdleRoutes
    /\ img = <<>> /\ min_area = 0 /\ max_area = 0
    /\ min_line_height = 0 /\ max_gap = 0 /\ lines = <<>>
    /\ result = <<>> /\ first = <<>> /\ union_img = <<>>

\* What a call of group_characters_by_similarity leaves alone.
GroupFrame ==
    UNCHANGED <<routeVars, img, lineVars, charVars, method, n_clusters, max_clusters,
                input_chars, mergeVars, sortVars>>

\* method == 'kmeans' on an empty list: cluster_characters_kmeans returns [].
\* Variant: the empty list goes on to KMeans, which rejects it.
GroupKMeansEmptyRaises ==
    /\ pc = "start"
    /\ method = "kmeans" /\ characters = <<>>
    /\ fit_calls' = fit_calls + 1
    /\ pc' = "raised"
    /\ UNCHANGED <<characters, labels, groups, hog_calls, kmeans_k>>
    /\ GroupFrame
GroupKMeansEmpty ==
    /\ pc = "start"
    /\ method = "kmeans" /\ characters = <<>>
    /\ groups' = SortedGroups(<<>>)
    /\ pc' = "grouped"
    /\ UNCHANGED <<characters, labels, hog_calls, fit_calls, kmeans_k>>
    /\ GroupFrame

\* method == 'kmeans': the features are extracted, then KMeans rejects a
\* cluster count below 1 when fit_predict is called.
GroupKMeansRejected ==
    /\ pc = "start"
    /\ method = "kmeans" /\ characters # <<>>
    /\ EffectiveClusters(Len(characters), n_clusters, max_clusters) < 1
    /\ hog_calls' = hog_calls + Len(characters)
    /\ kmeans_k' = <<EffectiveClusters(Len(characters), n_clusters, max_clusters)>>
    /\ fit_calls' = fit_calls + 1
    /\ pc' = "raised"
    /\ UNCHANGED <<characters, labels, groups>>
    /\ GroupFrame

\* method == 'kmeans': cluster, assign the group ids, group and sort.
GroupKMeans ==
    /\ pc = "start"
    /\ method = "kmeans" /\ characters # <<>>
    /\ LET k == EffectiveClusters(Len(characters), n_clusters, max_clusters)
       IN  /\ k >= 1
           /\ kmeans_k' = <<k>>
           /\ \E l \in KMeansLabelings(Features(characters), k) :
                 /\ labels' = l
                 /\ characters' = AssignGroupIds(characters, l)
                 /\ groups' = SortedGroups(characters')
    /\ hog_calls' = hog_calls + Len(characters)
    /\ fit_calls' = fit_calls + 1
    /\ pc' = "grouped"
    /\ GroupFrame

\* method == 'dbscan' on an empty list: cluster_characters_dbscan returns [].
GroupDBSCANEmpty ==
    /\ pc = "start"
    /\ method = "dbscan" /\ characters = <<>>
    /\ groups' = SortedGroups(<<>>)
    /\ pc' = "grouped"
    /\ UNCHANGED <<characters, labels, hog_calls, fit_calls, kmeans_k>>
    /\ GroupFrame

\* method == 'dbscan': cluster, assign the group ids, group and sort.
GroupDBSCAN ==
    /\ pc = "start"
    /\ method = "dbscan" /\ characters # <<>>
    /\ \E l \in DBSCANLabelings(Features(characters)) :
          /\ labels' = l
          /\ characters' = AssignGroupIds(characters, l)
          /\ groups' = SortedGroups(characters')
    /\ hog_calls' = hog_calls + Len(characters)
    /\ fit_calls' = fit_calls + 1
    /\ pc' = "grouped"
    /\ UNCHANGED kmeans_k
    /\ GroupFrame

\* any other method: raise ValueError("Unknown clustering method")
\* Variant: any other method is treated as 'kmeans' with one cluster.
GroupUnknownMethodFallsBack ==
    /\ pc = "start"
    /\ method \notin {"kmeans", "dbscan"}
    /\ labels' = [i \in 1..Len(characters) |-> 0]
    /\ characters' = AssignGroupIds(characters, labels')
    /\ groups' = SortedGroups(characters')
    /\ pc' = "grouped"
    /\ UNCHANGED <<hog_calls, fit_calls, kmeans_k>>
    /\ GroupFrame
GroupUnknownMethod ==
    /\ pc = "start"
    /\ method \notin {"kmeans", "dbscan"}
    /\ pc' = "raised"
    /\ UNCHANGED <<characters, labels, groups, hog_calls, fit_calls, kmeans_k>>
    /\ GroupFrame

\* The group ids a caller passes to merge_character_groups.
MergeIds == -1..(MaxGlyphs - 1)

\* What a call of merge_character_groups leaves alone.
MergeFrame ==
    UNCHANGED <<routeVars, img, lineVars, charVars, method, n_clusters, max_clusters, labels,
                clusterVars, sortVars>>

\* merge_character_groups(groups, id1, id2), one id not a key: no change.
MergeMissingKey ==
    /\ pc = "grouped"
    /\ \E id1, id2 \in MergeIds :
          /\ ~(HasKey(groups, id1) /\ HasKey(groups, id2))
          /\ group_id1' = <<id1>> /\ group_id2' = <<id2>>
    /\ groups_before' = groups /\ chars_before' = characters
    /\ pc' = "merged"
    /\ UNCHANGED <<groups, characters>>
    /\ MergeFrame

\* merge_character_groups(groups, id1, id2), both ids keys and id1 still a key
\* after "del groups[group_id2]".
MergeGroups ==
    /\ pc = "grouped"
    /\ \E id1, id2 \in MergeIds :
          /\ HasKey(groups, id1) /\ HasKey(groups, id2)
          /\ LET deleted == DeleteGroup(ExtendGroup(groups, id1, id2), id2)
             IN  /\ HasKey(deleted, id1)
                 /\ groups' = RelabelGroup(deleted, id1)
                 /\ characters' = RelabelShared(characters, deleted, id1)
          /\ group_id1' = <<id1>> /\ group_id2' = <<id2>>
    /\ groups_before' = groups /\ chars_before' = characters
    /\ pc' = "merged"
    /\ MergeFrame

\* merge_character_groups(groups, id, id): the list is extended by itself, the
\* key is deleted, and "for char in groups[group_id1]" raises KeyError.
MergeIntoItself ==
    /\ pc = "grouped"
    /\ \E id1, id2 \in MergeIds :
          /\ HasKey(groups, id1) /\ HasKey(groups, id2)
          /\ LET deleted == DeleteGroup(ExtendGroup(groups, id1, id2), id2)
             IN  /\ ~HasKey(deleted, id1)
                 /\ groups' = deleted
          /\ group_id1' = <<id1>> /\ group_id2' = <<id2>>
    /\ groups_before' = groups /\ chars_before' = characters
    /\ pc' = "merge_raised"
    /\ UNCHANGED characters
    /\ MergeFrame

\* groups = CharacterSegmenter.group_characters_by_similarity(characters,
\*              method=method, n_clusters=n_clusters, max_clusters=max_clusters)
\* followed by one CharacterSegmenter.merge_character_groups(groups, id1, id2)
NextGroup ==
    \/ GroupKMeansEmpty
    \/ GroupKMeansRejected
    \/ GroupKMeans
    \/ GroupDBSCANEmpty
    \/ GroupDBSCAN
    \/ GroupUnknownMethod
    \/ MergeMissingKey
    \/ MergeGroups
    \/ MergeIntoItself

SpecGroup == InitGroup /\ [][NextGroup]_vars

-----------------------------------------------------------------------------
(* CharacterSegmenter.sort_characters_reading_order *)

\* key=lambda c: (c['bbox']['y'], -c['bbox']['x'] if rtl else c['bbox']['x'])
\* Variant: the x coordinate is not negated for right-to-left.
ReadingKeyLeftToRight(c, r) == <<c.bbox.y, c.bbox.x>>
ReadingKey(c, r) == <<c.bbox.y, IF r THEN -c.bbox.x ELSE c.bbox.x>>

\* Python's order on tuples of two integers.
TupleLess(a, b) == a[1] < b[1] \/ (a[1] = b[1] /\ a[2] < b[2])

\* sorted(...) is stable: an element goes before the first element whose key
\* is strictly greater.
InsertByKey(sorted, c, r) ==
    LET greater == {j \in 1..Len(sorted) :
                       TupleLess(ReadingKey(c, r), ReadingKey(sorted[j], r))}
        at == IF greater = {} THEN Len(sorted) + 1
              ELSE CHOOSE j \in greater : \A m \in greater : j <= m
    IN  SubSeq(sorted, 1, at - 1) \o <<c>> \o SubSeq(sorted, at, Len(sorted))

RECURSIVE SortByKey(_, _, _)
SortByKey(chars, n, r) ==
    IF n = 0 THEN <<>> ELSE InsertByKey(SortByKey(chars, n - 1, r), chars[n], r)

SortCharactersReadingOrder(chars, r) ==
    IF chars = <<>> THEN <<>> ELSE SortByKey(chars, Len(chars), r)

\* The bounding box corners the glyphs of a page are placed at: two columns
\* on two rows.
SortXs == {10, 50}
SortYs == {0, 20}

\* Glyph lists in any order, ids in list order.
PlacedGlyphs ==
    UNION {[1..n -> [x : SortXs, y : SortYs]] : n \in 0..MaxSortGlyphs}

InitSort ==
    /\ pc = "start"
    /\ \E boxes \in PlacedGlyphs :
          characters = [i \in 1..Len(boxes) |-> [id |-> i - 1, bbox |-> boxes[i]]]
    /\ rtl \in BOOLEAN
    /\ sorted_chars = <<>>
    /\ IdleRoutes
    /\ method = "" /\ n_clusters = <<>> /\ max_clusters = 0
    /\ labels = <<>> /\ groups = <<>>
    /\ input_chars = <<>> /\ hog_calls = 0 /\ fit_calls = 0 /\ kmeans_k = <<>>
    /\ group_id1 = <<>> /\ group_id2 = <<>>
    /\ groups_before = <<>> /\ chars_before = <<>>
    /\ img = <<>> /\ min_area = 0 /\ max_area = 0
    /\ min_line_height = 0 /\ max_gap = 0 /\ lines = <<>>
    /\ result = <<>> /\ first = <<>> /\ union_img = <<>>

\* What a call of sort_characters_reading_order leaves alone.
SortFrame ==
    UNCHANGED <<routeVars, img, lineVars, charVars, characters, method, n_clusters,
                max_clusters, labels, groups, clusterVars, mergeVars, rtl>>

\* sort_characters_reading_order([], rtl): "if not characters: return []"
SortNoCharacters ==
    /\ pc = "start"
    /\ characters = <<>>
    /\ sorted_chars' = <<>>
    /\ pc' = "sorted"
    /\ SortFrame

\* sorted_chars = sort_characters_reading_order(characters, rtl)
SortCharacters ==
    /\ pc = "start"
    /\ characters # <<>>
    /\ sorted_chars' = SortCharactersReadingOrder(characters, rtl)
    /\ pc' = "sorted"
    /\ SortFrame

NextSort ==
    \/ SortNoCharacters
    \/ SortCharacters

SpecSort == InitSort /\ [][NextSort]_vars

-----------------------------------------------------------------------------
(* Claims about the line segmenter *)

\* Row y (0-based) of image holds ink: some pixel with intensity <= 127.
RowHasInk(image, y) == \E c \in 1..Len(image[y + 1]) : image[y + 1][c] <= 127

InkRows(image) == {y \in 0..Len(image) - 1 : RowHasInk(image, y)}

\* The maximal runs of consecutive ink rows, as pairs (first row, last row).
InkRuns(image) ==
    {run \in InkRows(image) \X InkRows(image) :
        /\ run[1] <= run[2]
        /\ \A y \in run[1]..run[2] : y \in InkRows(image)
        /\ run[1] - 1 \notin InkRows(image)
        /\ run[2] + 1 \notin InkRows(image)}

Min(S) == CHOOSE x \in S : \A y \in S : x <= y
Max(S) == CHOOSE x \in S : \A y \in S : x >= y

\* The (y_start, y_end) pairs of a list of band records.
Extents(bands) == {<<bands[k].y_start, bands[k].y_end>> : k \in 1..Len(bands)}

Segmented == pc \in {"segmented", "resegmented"}

\* C1: the bands returned by segment_lines have y_start < y_end, each band ends
\* at or before the start of the next one, and the band at index i has
\* line_order i.
C1_BandsOrdered ==
    Segmented =>
        /\ \A k \in 1..Len(result) :
              /\ result[k].y_start < result[k].y_end
              /\ result[k].line_order = k - 1
        /\ \A k \in 1..Len(result) - 1 :
              /\ result[k].y_end <= result[k + 1].y_start
              /\ result[k].y_start < result[k + 1].y_start

C1_Witness == pc = "segmented" /\ Len(result) >= 2 /\ Len(lines) > Len(result)

\* C2: every candidate band kept by the row scan has height >= min_line_height,
\* the run still open at the last row included.
C2_KeptBandsTallEnough ==
    pc = "segmented" =>
        \A k \in 1..Len(lines) : lines[k][2] - lines[k][1] >= min_line_height

\* The input list position k starts a new output band of _merge_close_lines.
ChainStart(k) == k = 1 \/ lines[k][1] - lines[k - 1][2] > max_gap

\* The maximal chains of "lines" in which each band is within max_gap of the
\* previous one, as pairs (start of the first band, end of the last band).
Chains ==
    {<<lines[i][1], lines[j][2]>> : <<i, j>> \in
        {ij \in (1..Len(lines)) \X (1..Len(lines)) :
            /\ ij[1] <= ij[2]
            /\ ChainStart(ij[1])
            /\ ij[2] = Len(lines) \/ ChainStart(ij[2] + 1)
            /\ \A k \in (ij[1] + 1)..ij[2] : ~ChainStart(k)}}

\* The merged list as (start, end) pairs, whichever call produced it.
MergedPairs ==
    IF pc = "merged" THEN result
    ELSE [k \in 1..Len(result) |-> <<result[k].y_start, result[k].y_end>>]

\* C3: after merging, consecutive bands are more than max_gap apart, and every
\* chain of input bands each within max_gap of the previous one has become one
\* band from the first start to the last end.
C3_MergedGapsExceedMaxGap ==
    pc \in {"segmented", "resegmented", "merged"} =>
        /\ \A k \in 1..Len(MergedPairs) - 1 :
              MergedPairs[k + 1][1] - MergedPairs[k][2] > max_gap
        /\ {MergedPairs[k] : k \in 1..Len(MergedPairs)} = Chains
        /\ Len(MergedPairs) = Cardinality(Chains)

C3_Witness ==
    /\ pc = "merged"
    /\ Len(lines) = 3
    /\ Len(result) = 1
    /\ lines[2][1] - lines[1][2] = max_gap
    /\ lines[3][1] - lines[2][2] = max_gap

\* C4: the page with row profile [0,0,5,5,5,0,0,3,3,0,0] (ink pixels per row),
\* min_line_height = 2 and max_gap = 1 gives exactly the bands [2,5) and [7,9)
\* with line_order 0 and 1.
C4_ProfileScenario ==
    (pc = "segmented" /\ img = ScenarioPage /\ min_line_height = 2 /\ max_gap = 1) =>
        /\ HProjection(Binarize(img)) = [r \in 1..11 |-> MaxVal * ScenarioInk[r]]
        /\ Len(result) = 2
        /\ result[1].y_start = 2 /\ result[1].y_end = 5 /\ result[1].line_order = 0
        /\ result[2].y_start = 7 /\ result[2].y_end = 9 /\ result[2].line_order = 1

C4_Witness ==
    pc = "segmented" /\ img = ScenarioPage /\ min_line_height = 2 /\ max_gap = 1

InkWithSmallGaps ==
    /\ InkRows(img) # {}
    /\ \A a, b \in InkRuns(img) :
          (a[2] < b[1] /\ \A y \in (a[2] + 1)..(b[1] - 1) : y \notin InkRows(img))
              => b[1] - a[2] - 1 <= max_gap

TextExtent == <<Min(InkRows(img)), Max(InkRows(img)) + 1>>

\* C6 as stated: a page with ink whose blank gaps are all <= max_gap gives
\* exactly one band, from the first ink row to one past the last ink row.
C6_SingleBandOverTextExtent ==
    (pc = "segmented" /\ InkWithSmallGaps) =>
        Len(result) = 1 /\ Extents(result) = {TextExtent}

\* C6 amended: the same, for pages in which every run of ink rows is at least
\* min_line_height rows tall.
C6_SingleBandWhenRunsTallEnough ==
    (/\ pc = "segmented"
     /\ InkWithSmallGaps
     /\ \A run \in InkRuns(img) : run[2] - run[1] + 1 >= min_line_height) =>
        Len(result) = 1 /\ Extents(result) = {TextExtent}

C6_Witness ==
    /\ pc = "segmented"
    /\ InkWithSmallGaps
    /\ \A run \in InkRuns(img) : run[2] - run[1] + 1 >= min_line_height
    /\ Cardinality(InkRuns(img)) >= 3
    /\ min_line_height >= 2
    /\ Len(result) = 1

\* C7: segment_lines run again on the union image of a first run's bands
\* returns the same set of (y_start, y_end) bands.
C7_ResegmentSameBands ==
    pc = "resegmented" => Extents(result) = Extents(first)

C7_Witness ==
    /\ pc = "resegmented"
    /\ union_img # img
    /\ Len(first) >= 2
    /\ Len(lines) > Len(result)

-----------------------------------------------------------------------------
(* Claims about the character segmenter *)

\* C8: every region returned by segment_characters has min_area <= area <=
\* max_area, w > 0, h > 0, area <= w*h, and a bounding box inside the image.
C8_RegionsInRangeAndInside ==
    pc = "characters" =>
        \A k \in 1..Len(characters) :
            LET ch == characters[k]
            IN  /\ min_area <= ch.area /\ ch.area <= max_area
                /\ ch.bbox.w > 0 /\ ch.bbox.h > 0
                /\ ch.area <= ch.bbox.w * ch.bbox.h
                /\ 0 <= ch.bbox.x /\ 0 <= ch.bbox.y
                /\ ch.bbox.x + ch.bbox.w <= Len(img[1])
                /\ ch.bbox.y + ch.bbox.h <= Len(img)

\* The ink pixels of the image, as (y, x) pairs: intensity <= 127.
InkPixels ==
    {p \in (0..Len(img) - 1) \X (0..Len(img[1]) - 1) : img[p[1] + 1][p[2] + 1] <= 127}

Touching(p, q) ==
    /\ p # q
    /\ p[1] - q[1] \in {-1, 0, 1}
    /\ p[2] - q[2] \in {-1, 0, 1}

\* The ink pixels joined to S by a chain of touching ink pixels.
RECURSIVE Closure(_)
Closure(S) ==
    LET next == S \cup {q \in InkPixels : \E p \in S : Touching(p, q)}
    IN  IF next = S THEN S ELSE Closure(next)

\* The maximal 8-connected sets of ink pixels.
InkSets == {Closure({p}) : p \in InkPixels}

\* The ones a call with the current min_area and max_area must report.
ReportedSets ==
    {S \in InkSets : min_area <= Cardinality(S) /\ Cardinality(S) <= max_area}

\* The region is the tight bounding box and the pixel count of S.
Describes(ch, S) ==
    /\ ch.area = Cardinality(S)
    /\ ch.bbox.x = Min({p[2] : p \in S})
    /\ ch.bbox.y = Min({p[1] : p \in S})
    /\ ch.bbox.x + ch.bbox.w - 1 = Max({p[2] : p \in S})
    /\ ch.bbox.y + ch.bbox.h - 1 = Max({p[1] : p \in S})

\* A region is returned while a larger set of ink pixels is left out.
C8_Witness ==
    /\ pc = "characters"
    /\ Len(characters) >= 1
    /\ \E S \in InkSets : Cardinality(S) > max_area

\* C9: segment_characters returns exactly one region for each maximal
\* 8-connected set of ink pixels whose size lies in [min_area, max_area], with
\* its tight bounding box and pixel count, and no other region; the two 10x10
\* squares at row 5 give two regions of area 100 with y = 5, w = 10, h = 10.
C9_OneRegionPerInkSet ==
    pc = "characters" =>
        /\ Len(characters) = Cardinality(ReportedSets)
        /\ \A S \in ReportedSets :
              Cardinality({k \in 1..Len(characters) : Describes(characters[k], S)}) = 1
        /\ \A k \in 1..Len(characters) :
              \E S \in ReportedSets : Describes(characters[k], S)
        /\ (img = SquaresImage /\ min_area = 50 /\ max_area = 200) =>
              /\ Len(characters) = 2
              /\ \A k \in 1..2 :
                    /\ characters[k].area = 100
                    /\ characters[k].bbox.y = 5
                    /\ characters[k].bbox.w = 10
                    /\ characters[k].bbox.h = 10
              /\ {characters[k].bbox.x : k \in 1..2} = {2, 22}

\* A region made of two pixels that touch only by a corner.
C9_Witness ==
    /\ pc = "characters"
    /\ Len(characters) = 1
    /\ \E k \in 1..Len(characters) :
          /\ characters[k].area = 2
          /\ characters[k].bbox.w = 2
          /\ characters[k].bbox.h = 2

-----------------------------------------------------------------------------
(* Claims about the grouper *)

\* The places (group index, position in the group's list) holding glyph id.
PlacesOf(id) ==
    {jm \in (1..Len(groups)) \X (1..Len(characters)) :
        /\ jm[2] <= Len(groups[jm[1]].chars)
        /\ groups[jm[1]].chars[jm[2]].id = id}

\* C10: for both methods and every non-empty glyph list the returned mapping is
\* a partition of the input: every glyph is in exactly one group's list exactly
\* once (under the group id its label gave it, -1 for a density outlier), no
\* list holds anything that is not an input glyph, and no group is empty.
C10_GroupsPartitionInput ==
    (pc = "grouped" /\ characters # <<>>) =>
        /\ \A i \in 1..Len(characters) :
              /\ Cardinality(PlacesOf(characters[i].id)) = 1
              /\ \A jm \in PlacesOf(characters[i].id) : groups[jm[1]].key = labels[i]
        /\ \A j \in 1..Len(groups) :
              /\ groups[j].chars # <<>>
              /\ \A m \in 1..Len(groups[j].chars) :
                    \E i \in 1..Len(characters) : groups[j].chars[m] = characters[i]
              /\ \A j2 \in 1..Len(groups) : groups[j2].key = groups[j].key => j2 = j
        /\ SumSeq([j \in 1..Len(groups) |-> Len(groups[j].chars)]) = Len(characters)

\* A density grouping with two outliers beside a cluster.
C10_Witness ==
    /\ pc = "grouped"
    /\ method = "dbscan"
    /\ Len(groups) = 2
    /\ Cardinality({i \in 1..Len(characters) : labels[i] = -1}) = 2
    /\ \E j \in 1..Len(groups) : groups[j].key = -1

-----------------------------------------------------------------------------
(* Claims about merge_character_groups *)

\* The number of members over all groups of a mapping.
TotalMembers(d) == SumSeq([j \in 1..Len(d) |-> Len(d[j].chars)])

\* A merge call has ended, by a return or by an exception.
MergeEnded == pc \in {"merged", "merge_raised"}

BothAreKeys ==
    /\ HasKey(groups_before, group_id1[1])
    /\ HasKey(groups_before, group_id2[1])

\* C11: for any two group ids that are keys of the mapping the merge returns a
\* mapping with exactly one group fewer and the same total number of members.
C11_MergeDropsOneGroupKeepsMembers ==
    (MergeEnded /\ BothAreKeys) =>
        /\ pc = "merged"
        /\ Len(groups) = Len(groups_before) - 1
        /\ TotalMembers(groups) = TotalMembers(groups_before)

\* The glyph records of a list with their group_id taken out of the comparison.
WithoutGroupId(chars) == [m \in 1..Len(chars) |-> [chars[m] EXCEPT !.group_id = NoneValue]]

\* C12: after a merge with both ids present id2 is no longer a key, the list of
\* id1 is its former list followed by the former members of id2 in their order,
\* every member of it has group_id id1, and every other group's list and its
\* members' group_id are unchanged; when an id is not a key, the mapping and
\* all glyph records are unchanged.
C12_MergeEffectAndFrame ==
    MergeEnded =>
        IF BothAreKeys
        THEN /\ pc = "merged"
             /\ ~HasKey(groups, group_id2[1])
             /\ HasKey(groups, group_id1[1])
             /\ WithoutGroupId(Lookup(groups, group_id1[1]))
                  = WithoutGroupId(Lookup(groups_before, group_id1[1])
                                     \o Lookup(groups_before, group_id2[1]))
             /\ \A m \in 1..Len(Lookup(groups, group_id1[1])) :
                   Lookup(groups, group_id1[1])[m].group_id = group_id1
             /\ \A j \in 1..Len(groups_before) :
                   groups_before[j].key \notin {group_id1[1], group_id2[1]} =>
                       /\ HasKey(groups, groups_before[j].key)
                       /\ Lookup(groups, groups_before[j].key) = groups_before[j].chars
        ELSE /\ groups = groups_before
             /\ characters = chars_before

-----------------------------------------------------------------------------
(* Claims about group_characters_by_similarity *)

\* The call of group_characters_by_similarity has ended, by a return or by an
\* exception, and no merge has touched its result yet.
GroupEnded == pc \in {"grouped", "raised"}

\* The position in the clustered list where a group id is first met.
FirstMet(key) == Min({i \in 1..Len(characters) : characters[i].group_id = <<key>>})

\* C13: the returned mapping iterates its groups in non-increasing order of
\* member count, so that the first group is a largest one, and groups of equal
\* size keep the order in which their ids were first met in the input.
C13_GroupsBySizeStable ==
    pc = "grouped" =>
        /\ \A i, j \in 1..Len(groups) :
              i < j =>
                /\ Len(groups[i].chars) >= Len(groups[j].chars)
                /\ Len(groups[i].chars) = Len(groups[j].chars) =>
                      FirstMet(groups[i].key) < FirstMet(groups[j].key)
        /\ \A j \in 1..Len(groups) : Len(groups[1].chars) >= Len(groups[j].chars)

\* The largest group was met last, and two groups of equal size follow it with
\* the larger id first.
C13_Witness ==
    /\ pc = "grouped"
    /\ Len(groups) = 3
    /\ Len(groups[1].chars) = 2
    /\ FirstMet(groups[1].key) = 3
    /\ Len(groups[2].chars) = Len(groups[3].chars)
    /\ groups[2].key > groups[3].key

\* max(1, min(floor(n/3), max_clusters)) or the given k, replaced by n when it
\* exceeds n.
ClaimedCount ==
    LET n == Len(input_chars)
        asked == IF n_clusters = NoneValue
                 THEN Max({1, Min({n \div 3, max_clusters})})
                 ELSE n_clusters[1]
    IN  IF asked > n THEN n ELSE asked

\* C14: in centroid mode on n >= 1 glyphs the count handed to the clustering
\* routine is max(1, min(floor(n/3), max_clusters)) when no k is given and k
\* when it is, in both cases replaced by n when it exceeds n; for every given
\* k >= 1, and whenever no k is given, it lies in 1..n.
C14_ClusterCountFormula ==
    (GroupEnded /\ method = "kmeans" /\ input_chars # <<>>) =>
        /\ kmeans_k = <<ClaimedCount>>
        /\ (n_clusters = NoneValue \/ n_clusters[1] >= 1) =>
              kmeans_k[1] \in 1..Len(input_chars)

\* Six glyphs without a given k are clustered into floor(6/3) = 2 clusters.
C14_Witness ==
    /\ pc = "grouped"
    /\ method = "kmeans"
    /\ Len(input_chars) = 6
    /\ n_clusters = NoneValue
    /\ max_clusters = DefaultMaxClusters
    /\ kmeans_k = <<2>>

\* No glyph of the list carries a group_id.
NoGroupIdAssigned == \A i \in 1..Len(characters) : characters[i].group_id = NoneValue

\* C15: with a method string other than 'kmeans' and 'dbscan' the call raises
\* for every glyph list, the empty list included: no fallback to a default
\* method, no mapping returned, no group_id assigned to any glyph.
C15_UnknownMethodRaises ==
    (method \notin {"kmeans", "dbscan"} /\ pc # "start") =>
        /\ pc = "raised"
        /\ groups = <<>>
        /\ labels = <<>>
        /\ fit_calls = 0
        /\ NoGroupIdAssigned

\* An unknown method has been rejected on a list of glyphs.
C15_Witness ==
    /\ pc = "raised"
    /\ method = "hog"
    /\ Len(characters) = 2
    /\ NoGroupIdAssigned

\* C16: centroid grouping of a non-empty glyph list with a requested cluster
\* count of zero or less fails before any clustering work is done: no feature
\* is extracted, no clustering routine is invoked, no glyph receives a
\* group_id.
C16_BadCountFailsFast ==
    (/\ method = "kmeans"
     /\ input_chars # <<>>
     /\ n_clusters # NoneValue
     /\ n_clusters[1] <= 0
     /\ pc # "start") =>
        /\ pc = "raised"
        /\ hog_calls = 0
        /\ fit_calls = 0
        /\ NoGroupIdAssigned

\* C17: for each supported method the call on an empty glyph list returns an
\* empty mapping without raising and without calling the clustering routine.
C17_EmptyListEmptyMapping ==
    (method \in {"kmeans", "dbscan"} /\ input_chars = <<>> /\ pc # "start") =>
        /\ pc # "raised"
        /\ groups = <<>>
        /\ hog_calls = 0
        /\ fit_calls = 0

\* The centroid method has returned for an empty list.
C17_Witness ==
    /\ pc = "grouped"
    /\ method = "kmeans"
    /\ input_chars = <<>>
    /\ groups = <<>>

\* The group ids of a mapping.
Keys(d) == {d[j].key : j \in 1..Len(d)}

\* The centroid method has returned a mapping for n >= k glyphs.
CentroidGrouped ==
    /\ pc = "grouped"
    /\ method = "kmeans"
    /\ input_chars # <<>>
    /\ Len(input_chars) >= kmeans_k[1]

\* Nine glyphs in three clusters of distinct features, grouped with k = 3.
NineGlyphScenario ==
    /\ CentroidGrouped
    /\ input_chars = NineGlyphs
    /\ kmeans_k = <<3>>

-----------------------------------------------------------------------------
(* Claims about sort_characters_reading_order *)

\* The position of a glyph in the input list.
InputPosition(c) == CHOOSE i \in 1..Len(characters) : characters[i] = c

\* C18: the result is a permutation of the input ordered by ascending bbox y
\* and, among equal y, by descending bbox x when rtl is true and ascending x
\* otherwise; glyphs with equal (y, x) keep their relative input order.  Two
\* glyphs on one row at x=10 and x=50 come out with the x=50 glyph first when
\* rtl is true.
C18_ReadingOrderStable ==
    pc = "sorted" =>
        /\ Len(sorted_chars) = Len(characters)
        /\ \A i \in 1..Len(characters) :
              Cardinality({j \in 1..Len(sorted_chars) : sorted_chars[j] = characters[i]}) = 1
        /\ \A i, j \in 1..Len(sorted_chars) :
              i < j =>
                LET a == sorted_chars[i]
                    b == sorted_chars[j]
                IN  /\ a.bbox.y <= b.bbox.y
                    /\ a.bbox.y = b.bbox.y =>
                          IF rtl THEN a.bbox.x >= b.bbox.x ELSE a.bbox.x <= b.bbox.x
                    /\ a.bbox = b.bbox => InputPosition(a) < InputPosition(b)
        /\ (/\ rtl
            /\ Len(characters) = 2
            /\ characters[1].bbox.y = characters[2].bbox.y
            /\ characters[1].bbox.x = 10
            /\ characters[2].bbox.x = 50) => sorted_chars[1] = characters[2]

\* The x=10, x=50 scenario sorted right-to-left.
C18_Witness ==
    /\ pc = "sorted"
    /\ rtl
    /\ Len(characters) = 2
    /\ characters[1].bbox = [x |-> 10, y |-> 0]
    /\ characters[2].bbox = [x |-> 50, y |-> 0]
    /\ sorted_chars = <<characters[2], characters[1]>>

-----------------------------------------------------------------------------
(* routes/training.py: POST /api/train, train_model_thread, progress_callback *)
(* and GET /api/train/progress.  Each request handler, each training thread   *)
(* and each stream is a thread of the server; a step is one statement or one  *)
(* group of statements that touches the shared status or queue once.          *)

\* What the training routes leave alone.
TrainFrame == UNCHANGED <<pc, serviceVars, labelVars, storeVars, ocrVars, runVars>>

\* An event of the progress queue: a per-epoch update or a terminal event.
EpochEvent(r, e, status) ==
    [run |-> r, status |-> "", epoch |-> e,
     total_epochs |-> status.total_epochs, progress |-> status.progress]
TerminalEvent(r, outcome) ==
    [run |-> r, status |-> outcome, epoch |-> 0, total_epochs |-> 0, progress |-> 0]

\* progress.get('status') in ['completed', 'error']
IsTerminal(event) == event.status \in {"completed", "error"}

InitTrain ==
    /\ pc = "routes"
    /\ IdleServices
    /\ IdleRoutes

\* train(), line 128: "if training_status['is_training']: return ... 400".
\* The request brings its epochs.
TrainCheck(r) ==
    /\ req[r].pc = "new"
    /\ \E epochs \in 1..MaxEpochs :
          IF training_status.is_training
          THEN /\ req' = [req EXCEPT ![r] = [pc |-> "done", epochs |-> epochs]]
               /\ resp' = [resp EXCEPT ![r] = "400 Training already in progress"]
          ELSE /\ req' = [req EXCEPT ![r] = [pc |-> "loading", epochs |-> epochs]]
               /\ UNCHANGED resp
    /\ UNCHANGED <<training_status, progress_queue, thr, cli>>
    /\ TrainFrame

\* train(), lines 131-168: fewer than 10 labeled characters are a 400.
TrainTooFewCharacters(r) ==
    /\ req[r].pc = "loading"
    /\ req' = [req EXCEPT ![r].pc = "done"]
    /\ resp' = [resp EXCEPT ![r] = "400 Not enough labeled characters"]
    /\ UNCHANGED <<training_status, progress_queue, thr, cli>>
    /\ TrainFrame

\* train(), lines 131-168 raise (the query, an image load): the except clause
\* of line 200 sets is_training to False and answers 500.
TrainLoadRaises(r) ==
    /\ req[r].pc = "loading"
    /\ training_status' = [training_status EXCEPT !.is_training = FALSE]
    /\ req' = [req EXCEPT ![r].pc = "done"]
    /\ resp' = [resp EXCEPT ![r] = "500"]
    /\ UNCHANGED <<progress_queue, thr, cli>>
    /\ TrainFrame

\* train(), lines 131-168 succeed.
TrainLoaded(r) ==
    /\ req[r].pc = "loading"
    /\ req' = [req EXCEPT ![r].pc = "init"]
    /\ UNCHANGED <<training_status, progress_queue, resp, thr, cli>>
    /\ TrainFrame

\* train(), lines 171-179: "training_status = {'is_training': True, ...}"
TrainInitStatus(r) ==
    /\ req[r].pc = "init"
    /\ training_status' = [is_training |-> TRUE, current_epoch |-> 0,
                           total_epochs |-> req[r].epochs, progress |-> 0]
    /\ req' = [req EXCEPT ![r].pc = "clearing"]
    /\ UNCHANGED <<progress_queue, resp, thr, cli>>
    /\ TrainFrame

\* train(), line 182: "while not progress_queue.empty()"
TrainClearTest(r) ==
    /\ req[r].pc = "clearing"
    /\ req' = [req EXCEPT ![r].pc = IF progress_queue = <<>> THEN "starting" ELSE "getting"]
    /\ UNCHANGED <<training_status, progress_queue, resp, thr, cli>>
    /\ TrainFrame

\* train(), line 183: "progress_queue.get()", which blocks while the queue is
\* empty.
TrainClearGet(r) ==
    /\ req[r].pc = "getting"
    /\ progress_queue # <<>>
    /\ progress_queue' = Tail(progress_queue)
    /\ req' = [req EXCEPT ![r].pc = "clearing"]
    /\ UNCHANGED <<training_status, resp, thr, cli>>
    /\ TrainFrame

\* train(), lines 186-198: the thread is started and the request answered.
TrainStartThread(r) ==
    /\ req[r].pc = "starting"
    /\ thr' = [thr EXCEPT ![r].pc = "training"]
    /\ req' = [req EXCEPT ![r].pc = "done"]
    /\ resp' = [resp EXCEPT ![r] = "200"]
    /\ UNCHANGED <<training_status, progress_queue, cli>>
    /\ TrainFrame

\* train(), lines 186-191 raise (no thread can be started): line 201 and 500.
TrainStartRaises(r) ==
    /\ req[r].pc = "starting"
    /\ training_status' = [training_status EXCEPT !.is_training = FALSE]
    /\ req' = [req EXCEPT ![r].pc = "done"]
    /\ resp' = [resp EXCEPT ![r] = "500"]
    /\ UNCHANGED <<progress_queue, thr, cli>>
    /\ TrainFrame

\* progress_callback, lines 36-38, at the end of epoch thr[r].epoch (0-based).
CallbackSetEpoch(r) ==
    /\ thr[r].pc = "training"
    /\ thr[r].epoch < req[r].epochs
    /\ training_status' = [training_status EXCEPT !.current_epoch = thr[r].epoch + 1]
    /\ thr' = [thr EXCEPT ![r].pc = "cb_progress"]
    /\ UNCHANGED <<progress_queue, req, resp, cli>>
    /\ TrainFrame

\* progress_callback, line 39:
\* progress = int((epoch + 1) / training_status['total_epochs'] * 100)
CallbackSetProgress(r) ==
    /\ thr[r].pc = "cb_progress"
    /\ training_status' =
          [training_status EXCEPT
              !.progress = ((thr[r].epoch + 1) * 100) \div training_status.total_epochs]
    /\ thr' = [thr EXCEPT ![r].pc = "cb_put"]
    /\ UNCHANGED <<progress_queue, req, resp, cli>>
    /\ TrainFrame

\* progress_callback, lines 42-48: progress_queue.put({...})
CallbackPut(r) ==
    /\ thr[r].pc = "cb_put"
    /\ progress_queue' =
          Append(progress_queue, EpochEvent(r, thr[r].epoch + 1, training_status))
    /\ thr' = [thr EXCEPT ![r].pc = "training", ![r].epoch = @ + 1]
    /\ UNCHANGED <<training_status, req, resp, cli>>
    /\ TrainFrame

\* train_model_thread, lines 69-91 finish: trainer.train returns after the
\* last epoch, or earlier when EarlyStopping ends it, and the model and the
\* run are saved.
ThreadTrained(r) ==
    /\ thr[r].pc = "training"
    /\ thr[r].epoch >= 1
    /\ thr' = [thr EXCEPT ![r].pc = "completed"]
    /\ UNCHANGED <<training_status, progress_queue, req, resp, cli>>
    /\ TrainFrame

\* train_model_thread, lines 57-91 raise (training, saving the model or
\* recording the run).
ThreadRaises(r) ==
    /\ thr[r].pc = "training"
    /\ thr' = [thr EXCEPT ![r].pc = "error"]
    /\ UNCHANGED <<training_status, progress_queue, req, resp, cli>>
    /\ TrainFrame

\* train_model_thread, line 94 or line 103: training_status['is_training'] = False
ThreadClearFlag(r) ==
    /\ thr[r].pc \in {"completed", "error"}
    /\ training_status' = [training_status EXCEPT !.is_training = FALSE]
    /\ thr' = [thr EXCEPT ![r].pc = IF @ = "completed" THEN "put_completed" ELSE "put_error"]
    /\ UNCHANGED <<progress_queue, req, resp, cli>>
    /\ TrainFrame

\* train_model_thread, lines 95-100 or 104-107: the terminal event is put.
ThreadPutTerminal(r) ==
    /\ thr[r].pc \in {"put_completed", "put_error"}
    /\ progress_queue' =
          Append(progress_queue,
                 TerminalEvent(r, IF thr[r].pc = "put_completed" THEN "completed" ELSE "error"))
    /\ thr' = [thr EXCEPT ![r].pc = "ended", ![r].terminals = @ + 1]
    /\ UNCHANGED <<training_status, req, resp, cli>>
    /\ TrainFrame

\* The threads whose training has not finished: started, and not yet at
\* "training_status['is_training'] = False".
TrainingThreads ==
    {r \in Requests : thr[r].pc \in {"training", "cb_progress", "cb_put", "completed", "error"}}

\* GET /api/train/progress: a client opens the stream; "during" notes whether a
\* training thread was running then.
StreamOpen(c) ==
    /\ cli[c].pc = "closed"
    /\ cli' = [cli EXCEPT ![c] = [pc |-> "open", during |-> TrainingThreads # {},
                                  last |-> ""]]
    /\ UNCHANGED <<training_status, progress_queue, req, resp, thr>>
    /\ TrainFrame

\* generate(), lines 226-233: an event is taken off the queue and sent; the
\* stream ends after a terminal event.  (When the queue stays empty for a
\* second a heartbeat is sent and nothing changes.)
StreamGet(c) ==
    /\ cli[c].pc = "open"
    /\ progress_queue # <<>>
    /\ progress_queue' = Tail(progress_queue)
    /\ cli' = [cli EXCEPT ![c].pc = IF IsTerminal(Head(progress_queue)) THEN "ended" ELSE "open",
                          ![c].last = Head(progress_queue).status]
    /\ UNCHANGED <<training_status, req, resp, thr>>
    /\ TrainFrame

\* The steps of the handler of request r once it has arrived.
HandlerStep(r) ==
    \/ TrainTooFewCharacters(r)
    \/ TrainLoadRaises(r)
    \/ TrainLoaded(r)
    \/ TrainInitStatus(r)
    \/ TrainClearTest(r)
    \/ TrainClearGet(r)
    \/ TrainStartThread(r)
    \/ TrainStartRaises(r)

\* The steps of the training thread of request r.
ThreadStep(r) ==
    \/ CallbackSetEpoch(r)
    \/ CallbackSetProgress(r)
    \/ CallbackPut(r)
    \/ ThreadTrained(r)
    \/ ThreadRaises(r)
    \/ ThreadClearFlag(r)
    \/ ThreadPutTerminal(r)

NextTrain ==
    \/ \E r \in Requests : TrainCheck(r)
    \/ \E r \in Requests : TrainTooFewCharacters(r)
    \/ \E r \in Requests : TrainLoadRaises(r)
    \/ \E r \in Requests : TrainLoaded(r)
    \/ \E r \in Requests : TrainInitStatus(r)
    \/ \E r \in Requests : TrainClearTest(r)
    \/ \E r \in Requests : TrainClearGet(r)
    \/ \E r \in Requests : TrainStartThread(r)
    \/ \E r \in Requests : TrainStartRaises(r)
    \/ \E r \in Requests : CallbackSetEpoch(r)
    \/ \E r \in Requests : CallbackSetProgress(r)
    \/ \E r \in Requests : CallbackPut(r)
    \/ \E r \in Requests : ThreadTrained(r)
    \/ \E r \in Requests : ThreadRaises(r)
    \/ \E r \in Requests : ThreadClearFlag(r)
    \/ \E r \in Requests : ThreadPutTerminal(r)
    \/ \E c \in Clients : StreamOpen(c)
    \/ \E c \in Clients : StreamGet(c)

SpecTrain == InitTrain /\ [][NextTrain]_vars

\* The server runs every thread that can take a step: a handler that has
\* received its request, a training thread, a stream with an event to send.
\* Requests and clients arrive when they please.
SpecTrainFair ==
    /\ SpecTrain
    /\ \A r \in Requests : WF_vars(HandlerStep(r)) /\ WF_vars(ThreadStep(r))
    /\ \A c \in Clients : WF_vars(StreamGet(c))

-----------------------------------------------------------------------------
(* Claims about the training routes *)

\* C23: at most one training thread is active at any time: a request that
\* arrives while another training has been accepted and has not finished is
\* answered 400 'Training already in progress' and starts no thread.
C23_OneTrainingAtATime == Cardinality(TrainingThreads) <= 1

\* Every thread that has ended has put exactly one terminal event, and puts it
\* last.
OneTerminalEventEach ==
    \A r \in Requests :
        /\ thr[r].terminals = (IF thr[r].pc = "ended" THEN 1 ELSE 0)
        /\ resp[r] = "200" => thr[r].pc # "none"

\* C24: once POST /api/train has set is_training it eventually becomes false
\* again, and each accepted training puts exactly one terminal event on the
\* queue, after all its per-epoch events.
C24_TrainingFlagCleared ==
    /\ [](training_status.is_training => <>(~training_status.is_training))
    /\ []OneTerminalEventEach

\* C25: every client that opens the stream during a training run eventually
\* receives a terminal event, and its stream then ends; for any number of
\* clients and also when a new training follows the previous one.
C25_EveryStreamEnds ==
    \A c \in Clients :
        []((cli[c].pc = "open" /\ cli[c].during) => <>(cli[c].pc = "ended"))

\* C30: in every reachable state of the training status 0 <= progress <= 100
\* and 0 <= current_epoch <= total_epochs.
C30_StatusInRange ==
    /\ training_status.progress \in 0..100
    /\ training_status.current_epoch \in 0..training_status.total_epochs

-----------------------------------------------------------------------------
(* routes/labeling.py: POST /api/label/characters *)

\* The Character rows of one segmented or labeled document, not yet labeled.
StoredDatabases ==
    {[chars |-> [id \in 1..MaxStoredChars |->
                    [label |-> NoneValue, group_id |-> <<0>>, document_id |-> 1]],
      docs  |-> <<[status |-> st]>>] : st \in {"segmented", "labeled"}}

\* An entry of "labels": a dict with or without each of its keys, or something
\* that is not a dict.  A missing key is <<>>.
LabelEntries ==
    [dict : {TRUE},
     character_id : {NoneValue} \cup {<<id>> : id \in 1..(MaxStoredChars + 1)},
     label : {NoneValue, <<"a">>},
     group_id : {NoneValue, <<5>>}]
    \cup {[dict |-> FALSE, character_id |-> NoneValue, label |-> NoneValue,
           group_id |-> NoneValue]}

\* request.get_json(): None or without "labels" (<<>>), or <<labels>>.
LabelRequests ==
    {NoneValue} \cup {<<ls>> : ls \in UNION {[1..n -> LabelEntries] : n \in 0..MaxLabels}}

\* Character.query.get(character_id)
HasCharacter(d, id) == id \in DOMAIN d.chars

\* Lines 47-51: character.label = label, and group_id when the key is there.
LabelCharacter(d, entry) ==
    LET id == entry.character_id[1]
    IN  [d EXCEPT !.chars[id].label = entry.label,
                  !.chars[id].group_id =
                      IF entry.group_id # NoneValue THEN entry.group_id ELSE @]

\* Lines 61-63: the document of the character becomes 'labeled' when it was
\* 'segmented'.
LabelDocument(d, id) ==
    LET doc == d.chars[id].document_id
    IN  IF d.docs[doc].status = "segmented"
        THEN [d EXCEPT !.docs[doc].status = "labeled"]
        ELSE d

InitLabel ==
    /\ pc = "start"
    /\ db \in StoredDatabases
    /\ session = db
    /\ db_before = db
    /\ label_data \in LabelRequests
    /\ label_pos = 0
    /\ label_resp = 0
    /\ IdleServices
    /\ IdleTraining /\ IdleStore /\ IdleOcr /\ IdleRuns

\* What POST /api/label/characters leaves alone.
LabelFrame ==
    UNCHANGED <<serviceVars, trainVars, storeVars, ocrVars, runVars, db_before, label_data>>

\* Lines 31-32: "if not data or 'labels' not in data: return ... 400"
LabelNoLabels ==
    /\ pc = "start"
    /\ label_data = NoneValue
    /\ label_resp' = 400
    /\ pc' = "done"
    /\ UNCHANGED <<db, session, label_pos>>
    /\ LabelFrame

\* Lines 37-53, one iteration of "for label_data in labels".
LabelNextEntry ==
    /\ pc = "start"
    /\ label_data # NoneValue
    /\ label_pos < Len(label_data[1])
    /\ LET entry == label_data[1][label_pos + 1]
       IN  /\ entry.dict
           /\ session' =
                 IF /\ entry.character_id # NoneValue
                    /\ entry.label # NoneValue
                    /\ HasCharacter(session, entry.character_id[1])
                 THEN LabelCharacter(session, entry)
                 ELSE session
    /\ label_pos' = label_pos + 1
    /\ UNCHANGED <<pc, db, label_resp>>
    /\ LabelFrame

\* Line 38 on an entry that is not a dict: ".get" raises, lines 71-73 roll the
\* session back and answer 500.
LabelEntryRaises ==
    /\ pc = "start"
    /\ label_data # NoneValue
    /\ label_pos < Len(label_data[1])
    /\ ~label_data[1][label_pos + 1].dict
    /\ session' = db
    /\ label_resp' = 500
    /\ pc' = "done"
    /\ UNCHANGED <<db, label_pos>>
    /\ LabelFrame

\* Line 55: db.session.commit()
LabelCommit ==
    /\ pc = "start"
    /\ label_data # NoneValue
    /\ label_pos = Len(label_data[1])
    /\ db' = session
    /\ pc' = "committed"
    /\ UNCHANGED <<session, label_pos, label_resp>>
    /\ LabelFrame

\* Lines 58-69 without an exception: the status of the first character's
\* document is updated and committed, and the answer is 200.
LabelUpdateDocument ==
    /\ pc = "committed"
    /\ \/ /\ label_data[1] = <<>>
          /\ UNCHANGED <<db, session>>
       \/ /\ label_data[1] # <<>>
          /\ label_data[1][1].character_id # NoneValue
          /\ LET id == label_data[1][1].character_id[1]
             IN  IF HasCharacter(session, id)
                 THEN /\ session' = LabelDocument(session, id)
                      /\ db' = session'
                 ELSE UNCHANGED <<db, session>>
    /\ label_resp' = 200
    /\ pc' = "done"
    /\ UNCHANGED label_pos
    /\ LabelFrame

\* Line 59 when the first entry has no 'character_id': labels[0]['character_id']
\* raises KeyError, lines 71-73 roll back (nothing is pending) and answer 500.
LabelFirstKeyRaises ==
    /\ pc = "committed"
    /\ label_data[1] # <<>>
    /\ label_data[1][1].character_id = NoneValue
    /\ session' = db
    /\ label_resp' = 500
    /\ pc' = "done"
    /\ UNCHANGED <<db, label_pos>>
    /\ LabelFrame

NextLabel ==
    \/ LabelNoLabels
    \/ LabelNextEntry
    \/ LabelEntryRaises
    \/ LabelCommit
    \/ LabelUpdateDocument
    \/ LabelFirstKeyRaises

SpecLabel == InitLabel /\ [][NextLabel]_vars

\* C26: whenever POST /api/label/characters answers with an error (400 or 500)
\* no character's label or group_id and no document status has been changed in
\* the database by that request.
C26_ErrorLeavesDatabase ==
    label_resp \in {400, 500} => db = db_before

-----------------------------------------------------------------------------
(* LineSegmenter.segment_lines_advanced *)

\* cv2.getStructuringElement(cv2.MORPH_RECT, (50, 1)): 50 wide, 1 high, anchor
\* at its centre (25, 0).
KernelWidth == 50
KernelAnchor == KernelWidth \div 2

\* cv2.dilate(binary, kernel): a pixel becomes the maximum of the pixels the
\* kernel covers, columns x - 25 .. x + 24 of its row as far as they exist.
Dilate(binary) ==
    [r \in 1..Len(binary) |->
        [c \in 1..Len(binary[r]) |->
            IF \E d \in 0..(KernelWidth - 1) :
                  /\ c + d - KernelAnchor \in 1..Len(binary[r])
                  /\ binary[r][c + d - KernelAnchor] # 0
            THEN MaxVal ELSE 0]]

\* cv2.findContours(dilated, RETR_EXTERNAL, ...) and cv2.boundingRect: one box
\* (y, y + h, x, w) per connected blob of the dilated image.
BoundingBoxes(dilated) ==
    LET comps == LabelComponents(Foreground(dilated))
    IN  [k \in 1..Len(comps) |->
            LET st == Stats(comps[k])
            IN  <<st.top, st.top + st.height, st.left, st.width>>]

\* "if h >= min_line_height: line_boxes.append(...)"
TallBoxes(boxes, mlh) == SelectSeq(boxes, LAMBDA b : b[2] - b[1] >= mlh)

\* line_boxes.sort(key=lambda box: box[0]) is stable: a box goes before the
\* first box that starts strictly lower.
InsertByTop(sorted, b) ==
    LET lower == {j \in 1..Len(sorted) : sorted[j][1] > b[1]}
        at == IF lower = {} THEN Len(sorted) + 1
              ELSE CHOOSE j \in lower : \A m \in lower : j <= m
    IN  SubSeq(sorted, 1, at - 1) \o <<b>> \o SubSeq(sorted, at, Len(sorted))

RECURSIVE SortByTop(_, _)
SortByTop(boxes, n) ==
    IF n = 0 THEN <<>> ELSE InsertByTop(SortByTop(boxes, n - 1), boxes[n])

\* The result list built from the sorted boxes.
AdvancedBands(line_boxes, image) ==
    [idx \in 1..Len(line_boxes) |->
        [line_order |-> idx - 1,
         y_start    |-> line_boxes[idx][1],
         y_end      |-> line_boxes[idx][2],
         image      |-> RowSlice(image, line_boxes[idx][1], line_boxes[idx][2])]]

\* segment_lines_advanced(image, mlh).  The order in which findContours lists
\* the contours is the library's: every order is a possible one.
SegmentLinesAdvanced(image, mlh) ==
    LET boxes == BoundingBoxes(Dilate(Binarize(image)))
    IN  {AdvancedBands(SortByTop(TallBoxes([k \in 1..Len(boxes) |-> boxes[order[k]]], mlh),
                                 Len(TallBoxes(boxes, mlh))),
                       image) :
            order \in Permutations(1..Len(boxes))}

\* Pages wide enough for two blobs the kernel does not join: ink may stand in
\* the first, the middle and the last column of each row.
MaxPageWidth == KernelWidth + 2
InkColumns == {1, KernelAnchor + 1, MaxPageWidth}

WidePages ==
    {[r \in 1..Len(ink) |->
        [c \in 1..MaxPageWidth |-> IF c \in ink[r] THEN 0 ELSE MaxVal]] :
        ink \in UNION {[1..h -> SUBSET InkColumns] : h \in 1..MaxWideHeight}}

InitAdvanced ==
    /\ pc = "start"
    /\ img \in WidePages
    /\ min_line_height \in 1..MaxMinLineHeight
    /\ result = <<>>
    /\ min_area = 0 /\ max_area = 0
    /\ max_gap = 0 /\ lines = <<>>
    /\ first = <<>> /\ union_img = <<>>
    /\ characters = <<>>
    /\ method = "" /\ n_clusters = <<>> /\ max_clusters = 0
    /\ labels = <<>> /\ groups = <<>>
    /\ input_chars = <<>> /\ hog_calls = 0 /\ fit_calls = 0 /\ kmeans_k = <<>>
    /\ group_id1 = <<>> /\ group_id2 = <<>>
    /\ groups_before = <<>> /\ chars_before = <<>>
    /\ rtl = TRUE /\ sorted_chars = <<>>
    /\ IdleRoutes

\* result = LineSegmenter.segment_lines_advanced(img, min_line_height)
CallSegmentLinesAdvanced ==
    /\ pc = "start"
    /\ result' \in SegmentLinesAdvanced(img, min_line_height)
    /\ pc' = "segmented"
    /\ UNCHANGED <<img, min_line_height, max_gap, lines, first, union_img, charVars,
                   characters, groupVars, routeVars>>

NextAdvanced == CallSegmentLinesAdvanced

SpecAdvanced == InitAdvanced /\ [][NextAdvanced]_vars

\* C28: the bands returned by segment_lines_advanced are sorted by
\* non-decreasing y_start with line_order equal to the index, each has height
\* >= min_line_height, and no two bands overlap vertically.
C28_AdvancedBandsDisjoint ==
    pc = "segmented" =>
        /\ \A k \in 1..Len(result) :
              /\ result[k].line_order = k - 1
              /\ result[k].y_end - result[k].y_start >= min_line_height
        /\ \A k \in 1..(Len(result) - 1) :
              /\ result[k].y_start <= result[k + 1].y_start
              /\ result[k].y_end <= result[k + 1].y_start

-----------------------------------------------------------------------------
(* routes/segmentation.py: POST /api/segment/lines and GET /api/lines/<id> *)

\* max_gap=15 in the signature of segment_lines; the route does not pass it.
DefaultMaxGap == 15

\* The enhanced image of the one document: ink in the first column of any of
\* its rows.
StoredPages == {page \in WidePages : \A r \in 1..Len(page) : \A c \in 2..MaxPageWidth : page[r][c] = MaxVal}

\* Lines 204-248: one Line row is added per band, ids in insertion order.
AddLineRows(table, bands) ==
    table \o [k \in 1..Len(bands) |->
                [id |-> Len(table) + k, document_id |-> 1,
                 line_order |-> bands[k].line_order,
                 bbox_y_start |-> bands[k].y_start, bbox_y_end |-> bands[k].y_end]]

InitStore ==
    /\ pc = "stored"
    /\ img \in StoredPages
    /\ min_line_height = 0
    /\ method = ""
    /\ result = <<>>
    /\ line_table = <<>>
    /\ store_calls = 0
    /\ min_area = 0 /\ max_area = 0
    /\ max_gap = 0 /\ lines = <<>>
    /\ first = <<>> /\ union_img = <<>>
    /\ characters = <<>>
    /\ n_clusters = <<>> /\ max_clusters = 0
    /\ labels = <<>> /\ groups = <<>>
    /\ input_chars = <<>> /\ hog_calls = 0 /\ fit_calls = 0 /\ kmeans_k = <<>>
    /\ group_id1 = <<>> /\ group_id2 = <<>>
    /\ groups_before = <<>> /\ chars_before = <<>>
    /\ rtl = TRUE /\ sorted_chars = <<>>
    /\ IdleTraining /\ IdleLabeling /\ IdleOcr /\ IdleRuns

\* What POST /api/segment/lines leaves alone.
StoreFrame ==
    UNCHANGED <<pc, img, max_gap, lines, first, union_img, charVars, characters,
                n_clusters, max_clusters, labels, groups, clusterVars, mergeVars,
                sortVars, trainVars, labelVars, ocrVars, runVars>>

\* POST /api/segment/lines answered 200: the document is segmented with the
\* method and min_line_height of the request, a row is added for every band
\* and the session is committed.
StoreSegmentLines ==
    /\ store_calls < MaxStoreCalls
    /\ \E mlh \in 1..MaxMinLineHeight, m \in {"projection", "advanced"} :
          /\ min_line_height' = mlh
          /\ method' = m
          /\ IF m = "advanced"
             THEN result' \in SegmentLinesAdvanced(img, mlh)
             ELSE result' = SegmentLines(img, mlh, DefaultMaxGap)
    /\ line_table' = AddLineRows(line_table, result')
    /\ store_calls' = store_calls + 1
    /\ StoreFrame

\* POST /api/segment/lines answered 500: an exception while the lines are
\* saved, the rows added so far are rolled back.
StoreRaises ==
    /\ store_calls < MaxStoreCalls
    /\ \E mlh \in 1..MaxMinLineHeight, m \in {"projection", "advanced"} :
          /\ min_line_height' = mlh
          /\ method' = m
    /\ UNCHANGED <<result, line_table, store_calls>>
    /\ StoreFrame

NextStore ==
    \/ StoreSegmentLines
    \/ StoreRaises

SpecStore == InitStore /\ [][NextStore]_vars

\* The rows GET /api/lines/<document_id> returns: those of the document.
RowsOfDocument == SelectSeq(line_table, LAMBDA row : row.document_id = 1)

\* C29: after any sequence of successful POST /api/segment/lines calls the
\* Line rows of the document have pairwise distinct line_order values and are
\* exactly the bands of the most recent call.
C29_StoredLinesAreLastBands ==
    store_calls >= 1 =>
        /\ \A i, j \in 1..Len(RowsOfDocument) :
              RowsOfDocument[i].line_order = RowsOfDocument[j].line_order => i = j
        /\ Len(RowsOfDocument) = Len(result)
        /\ \A k \in 1..Len(result) :
              \E i \in 1..Len(RowsOfDocument) :
                 /\ RowsOfDocument[i].line_order = result[k].line_order
                 /\ RowsOfDocument[i].bbox_y_start = result[k].y_start
                 /\ RowsOfDocument[i].bbox_y_end = result[k].y_end

-----------------------------------------------------------------------------
(* inference_app.py: POST /api/ocr/lines *)

\* segment_lines(img, min_line_height=10) and
\* segment_characters(line_img, min_area=10, max_area=5000) in ocr_lines.
OcrMinLineHeight == 10
OcrMinArea == 10
OcrMaxArea == 5000

\* The uploaded pages: up to MaxOcrLines lines of text, each with two glyph
\* places side by side.  A glyph is a column of ink one pixel wide, "tall"
\* over the whole height of the line, "short" starting one row lower; the
\* lines are separated by more blank rows than merge_close_lines bridges.
GlyphHeight == OcrMinLineHeight + 1
BlankRows == DefaultMaxGap + 1
GlyphShapes == {"tall", "short", "none"}
LineLayouts == [1..2 -> GlyphShapes]

InkAt(shape, r) ==
    \/ shape = "tall" /\ r <= GlyphHeight
    \/ shape = "short" /\ 2 <= r /\ r <= GlyphHeight

LineBlock(layout) ==
    [r \in 1..(GlyphHeight + BlankRows) |->
        <<IF InkAt(layout[1], r) THEN 0 ELSE MaxVal,
          MaxVal,
          IF InkAt(layout[2], r) THEN 0 ELSE MaxVal>>]

RECURSIVE PageOf(_)
PageOf(layouts) ==
    IF Len(layouts) = 1 THEN SubSeq(LineBlock(layouts[1]), 1, GlyphHeight)
    ELSE LineBlock(layouts[1]) \o PageOf(Tail(layouts))

OcrPages == {PageOf(ls) : ls \in UNION {[1..n -> LineLayouts] : n \in 1..MaxOcrLines}}

\* ocr_model.predict_single and char_encoder.decode: the character the model
\* reads in a glyph image.  The weights are loaded from a file; the model here
\* tells the two glyph shapes of the pages apart.
Predict(image) == IF Len(image) = GlyphHeight THEN "L" ELSE "B"

\* line_text += char_encoder.decode(int(predicted_idx)) for char in chars
LineText(chars) == [i \in 1..Len(chars) |-> Predict(chars[i].image)]

\* The entry of result_lines for one band and its sorted characters.
LineEntry(line_data, chars) ==
    [line_order |-> line_data.line_order,
     text |-> LineText(chars),
     num_characters |-> Len(chars)]

\* result_lines.append({...});  variant: the entry is put in front.
PrependLine(entries, entry) == <<entry>> \o entries
AppendLine(entries, entry) == Append(entries, entry)

\* '\n'.join([l['text'] for l in result_lines])
RECURSIVE JoinLines(_)
JoinLines(entries) ==
    IF entries = <<>> THEN <<>>
    ELSE IF Len(entries) = 1 THEN entries[1].text
    ELSE entries[1].text \o <<"\n">> \o JoinLines(Tail(entries))

InitOcr ==
    /\ pc = "ocr_uploaded"
    /\ img \in OcrPages
    /\ min_line_height = 0 /\ max_gap = 0 /\ lines = <<>>
    /\ result = <<>> /\ first = <<>> /\ union_img = <<>>
    /\ min_area = 0 /\ max_area = 0
    /\ characters = <<>>
    /\ method = "" /\ n_clusters = <<>> /\ max_clusters = 0
    /\ labels = <<>> /\ groups = <<>>
    /\ input_chars = <<>> /\ hog_calls = 0 /\ fit_calls = 0 /\ kmeans_k = <<>>
    /\ group_id1 = <<>> /\ group_id2 = <<>>
    /\ groups_before = <<>> /\ chars_before = <<>>
    /\ rtl = TRUE /\ sorted_chars = <<>>
    /\ IdleRoutes

\* What ocr_lines leaves alone.
OcrFrame ==
    UNCHANGED <<img, min_line_height, max_gap, lines, first, union_img, charVars,
                characters, groupVars, trainVars, labelVars, storeVars, runVars>>

\* lines = LineSegmenter.segment_lines(img, min_line_height=10)
OcrSegmentLines ==
    /\ pc = "ocr_uploaded"
    /\ result' = SegmentLines(img, OcrMinLineHeight, DefaultMaxGap)
    /\ ocr_pos' = 1
    /\ pc' = "ocr_lines"
    /\ UNCHANGED <<ocr_chars, result_lines, full_text>>
    /\ OcrFrame

\* One turn of "for line_data in lines": the characters of the line are
\* segmented, sorted in reading order and predicted.
OcrReadLine ==
    /\ pc = "ocr_lines"
    /\ ocr_pos <= Len(result)
    /\ LET line_data == result[ocr_pos]
           chars == SortCharactersReadingOrder(
                        SegmentCharacters(line_data.image, OcrMinArea, OcrMaxArea), TRUE)
       IN  /\ ocr_chars' = Append(ocr_chars, chars)
           /\ result_lines' = AppendLine(result_lines, LineEntry(line_data, chars))
    /\ ocr_pos' = ocr_pos + 1
    /\ UNCHANGED <<pc, result, full_text>>
    /\ OcrFrame

\* After the loop: the texts are joined and the response is sent.
OcrRespond ==
    /\ pc = "ocr_lines"
    /\ ocr_pos > Len(result)
    /\ full_text' = JoinLines(result_lines)
    /\ pc' = "ocr_done"
    /\ UNCHANGED <<result, ocr_pos, ocr_chars, result_lines>>
    /\ OcrFrame

NextOcr ==
    \/ OcrSegmentLines
    \/ OcrReadLine
    \/ OcrRespond

SpecOcr == InitOcr /\ [][NextOcr]_vars

\* Where the text of the k-th reported line starts in the full text.
TextOffset(k) ==
    SumSeq([j \in 1..(k - 1) |-> Len(result_lines[j].text) + 1])

\* C22: in /api/ocr/lines the reported lines appear in ascending line_order,
\* which is the top-to-bottom order of the bands' y_start as produced by
\* segment_lines (the k-th reported line is the k-th band, bands strictly
\* descending the page), and the full text is the per-line texts joined by
\* newlines in that same order.
C22_LinesTopToBottom ==
    pc = "ocr_done" =>
        /\ Len(result_lines) = Len(result)
        /\ \A k \in 1..Len(result_lines) :
              /\ result_lines[k].line_order = k - 1
              /\ result_lines[k].line_order = result[k].line_order
              /\ result_lines[k].text = LineText(ocr_chars[k])
              /\ \A i \in 1..Len(ocr_chars[k]) :
                    LET b == ocr_chars[k][i].bbox
                    IN  \A r \in 1..b.h :
                           img[result[k].y_start + b.y + r][b.x + 1] = 0
              /\ \A i \in 1..Len(result_lines[k].text) :
                    full_text[TextOffset(k) + i] = result_lines[k].text[i]
              /\ k > 1 => full_text[TextOffset(k)] = "\n"
        /\ \A k \in 1..(Len(result) - 1) : result[k].y_start < result[k + 1].y_start
        /\ Len(full_text) = IF result_lines = <<>> THEN 0
                            ELSE TextOffset(Len(result_lines) + 1) - 1

\* Two lines with different texts were read.
C22_Witness ==
    /\ pc = "ocr_done"
    /\ Len(result_lines) = 2
    /\ result_lines[1].text # result_lines[2].text
    /\ result_lines[1].text # <<>>
    /\ result_lines[2].text # <<>>

\* C27: in /api/ocr/lines the text of each line is the concatenation of the
\* predictions of that line's glyphs in order of decreasing bbox x, also when
\* the tops of the glyphs' bounding boxes differ within the line.
C27_TextRightToLeft ==
    pc = "ocr_done" =>
        \A k \in 1..Len(result_lines) :
           /\ result_lines[k].text = LineText(ocr_chars[k])
           /\ \A i, j \in 1..Len(ocr_chars[k]) :
                 i < j => ocr_chars[k][i].bbox.x > ocr_chars[k][j].bbox.x

-----------------------------------------------------------------------------
(* Pipeline runs over independent documents, one worker each *)

RunIds == 1..MaxRuns

\* The pages of the runs: one row of four pixels.
RunPages == [1..1 -> [1..4 -> PixelLevels]]

\* The locals of a run that has not started.
NewRun(page) ==
    [pc |-> "new", img |-> page, lines |-> <<>>, chars |-> <<>>,
     groups |-> <<>>, sorted |-> <<>>]

\* The state a step of run r works on: the locals of the call.  The four
\* functions are static methods of classes without attributes and the
\* modules have no globals.
\* Variant: the state is kept in one place shared by all runs.
RunLocalsShared(r) == runs[1]
RunLocals(r) == runs[r]

\* The characters of all lines of a page, each with the key 'group_id' still
\* absent.
RECURSIVE CharactersOfLines(_)
CharactersOfLines(bands) ==
    IF bands = <<>> THEN <<>>
    ELSE LET cs == SegmentCharacters(bands[1].image, 1, 10000)
         IN  [i \in 1..Len(cs) |->
                 [id |-> cs[i].id, bbox |-> cs[i].bbox, image |-> cs[i].image,
                  area |-> cs[i].area, group_id |-> NoneValue]]
             \o CharactersOfLines(Tail(bands))

InitRuns ==
    /\ pc = "runs"
    /\ IdleServices
    /\ IdleTraining /\ IdleLabeling /\ IdleStore /\ IdleOcr
    /\ runs \in [RunIds -> {NewRun(page) : page \in RunPages}]

RunFrame == UNCHANGED <<pc, serviceVars, trainVars, labelVars, storeVars, ocrVars>>

\* LineSegmenter.segment_lines(img, min_line_height=1, max_gap=1)
RunSegmentLines(r) ==
    /\ runs[r].pc = "new"
    /\ runs' = [runs EXCEPT ![r].lines = SegmentLines(RunLocals(r).img, 1, 1),
                            ![r].pc = "lines"]
    /\ RunFrame

\* CharacterSegmenter.segment_characters on the image of every line
RunSegmentCharacters(r) ==
    /\ runs[r].pc = "lines"
    /\ runs' = [runs EXCEPT ![r].chars = CharactersOfLines(RunLocals(r).lines),
                            ![r].pc = "characters"]
    /\ RunFrame

\* CharacterSegmenter.group_characters_by_similarity(chars)
RunGroup(r) ==
    /\ runs[r].pc = "characters"
    /\ LET chars == RunLocals(r).chars
           k == EffectiveClusters(Len(chars), NoneValue, DefaultMaxClusters)
       IN  IF chars = <<>>
           THEN runs' = [runs EXCEPT ![r].groups = SortedGroups(<<>>),
                                     ![r].pc = "grouped"]
           ELSE \E l \in KMeansLabelings(Features(chars), k) :
                   runs' = [runs EXCEPT ![r].chars = AssignGroupIds(chars, l),
                                        ![r].groups = SortedGroups(AssignGroupIds(chars, l)),
                                        ![r].pc = "grouped"]
    /\ RunFrame

\* CharacterSegmenter.sort_characters_reading_order(chars, rtl=True)
RunSort(r) ==
    /\ runs[r].pc = "grouped"
    /\ runs' = [runs EXCEPT ![r].sorted = SortCharactersReadingOrder(RunLocals(r).chars, TRUE),
                            ![r].pc = "done"]
    /\ RunFrame

NextRuns ==
    \/ \E r \in RunIds : RunSegmentLines(r)
    \/ \E r \in RunIds : RunSegmentCharacters(r)
    \/ \E r \in RunIds : RunGroup(r)
    \/ \E r \in RunIds : RunSort(r)

SpecRuns == InitRuns /\ [][NextRuns]_vars

\* What a run over a page produces when it is the only run: every outcome
\* the clustering allows.
AloneOutcomes(page) ==
    LET bands == SegmentLines(page, 1, 1)
        chars == CharactersOfLines(bands)
        k == EffectiveClusters(Len(chars), NoneValue, DefaultMaxClusters)
        labelings == IF chars = <<>> THEN {<<>>} ELSE KMeansLabelings(Features(chars), k)
    IN  {[pc |-> "done", img |-> page, lines |-> bands,
          chars |-> AssignGroupIds(chars, l),
          groups |-> SortedGroups(AssignGroupIds(chars, l)),
          sorted |-> SortCharactersReadingOrder(AssignGroupIds(chars, l), TRUE)] :
            l \in labelings}

\* A finished run has the result of a run alone over its own page.
RunsAsAlone ==
    \A r \in RunIds : runs[r].pc = "done" => runs[r] \in AloneOutcomes(runs[r].img)

\* A step changes the state of one run and leaves the other runs' state as
\* it was.
OneRunPerStep ==
    \E r \in RunIds : \A o \in RunIds \ {r} : runs'[o] = runs[o]

=============================================================================
